---- MODULE Spec2Model ----
(***************************************************************************)
(* Transaction engine of linux-firewire-utils: the PHY packet transaction *)
(* of firewire-phy-command (_send_packet), the asynchronous requests and  *)
(* the FCP exchange of firewire-request (do_read, do_write_request,       *)
(* do_lock_request, wait_for_response, do_fcp) and the remote PHY         *)
(* register scan of lsfirewirephy (list_phy).                             *)
(*                                                                         *)
(* One behaviour is one run of one command.  The kernel is the            *)
(* environment: every read of the device file yields an event chosen      *)
(* from a finite alphabet, or the poll before it yields nothing.          *)
(***************************************************************************)
EXTENDS Integers, Sequences, FiniteSets, TLC

(* ------------------------------ bounds -------------------------------- *)

\* events one command may read from the device file (phy, async, fcp)
MaxEvents == 4

\* events one register scan may read from the device file
MaxScanEvents == 7

\* events one run over all PHYs of a bus may read from the device file
MaxBusEvents == 2

\* bus generations are 0..MaxGen
MaxGen == 1

(* --------------------------- 32-bit words ----------------------------- *)

\* A u32 is the set of the positions of its one bits, bit 0 the least
\* significant: the operators below are exact on all 32 bits.
BitPos == 0..31

RECURSIVE BitsFrom(_, _)
BitsFrom(n, i) ==
    IF n = 0 THEN {}
    ELSE (IF n % 2 = 1 THEN {i} ELSE {}) \cup BitsFrom(n \div 2, i + 1)

\* the u32 with the value n
W(n) == BitsFrom(n, 0)

And(a, b) == a \cap b

Or(a, b) == a \cup b

Not(a) == BitPos \ a

Shl(a, n) == {i + n : i \in a} \cap BitPos

Shr(a, n) == {i - n : i \in a} \cap BitPos

RECURSIVE ValueOf(_)
\* the number a u32 holds (used on values below 2^31 only)
ValueOf(a) ==
    IF a = {} THEN 0
    ELSE LET i == CHOOSE j \in a : TRUE IN 2^i + ValueOf(a \ {i})

(* ------------------------ program constants --------------------------- *)

\* ARRAY_SIZE(self_ids)
SelfIdsSize == 3

\* regs_read value that ends the scan loop
AllRegsRead == W(252)

RCODE_COMPLETE == "COMPLETE"
RCODE_GENERATION == "GENERATION"
RCODE_BUSY == "BUSY"

Rcodes == {RCODE_COMPLETE, RCODE_GENERATION, RCODE_BUSY}

EV_BUS_RESET == "BUS_RESET"
EV_RESPONSE == "RESPONSE"
EV_REQUEST == "REQUEST"
EV_PHY_PACKET_SENT == "PHY_PACKET_SENT"
EV_PHY_PACKET_RECEIVED == "PHY_PACKET_RECEIVED"

Gens == 0..MaxGen

(* ------------------------------ events -------------------------------- *)

\* union fw_cdev_event, the fields the programs read
Event(t, g, rc, len, d, h) ==
    [type |-> t, generation |-> g, rcode |-> rc, length |-> len,
     data |-> d, handle |-> h]

NoEvent == Event("NONE", 0, "", 0, {}, 0)

BusResetEv(g) == Event(EV_BUS_RESET, g, "", 0, {}, 0)
ResponseEv(rc) == Event(EV_RESPONSE, 0, rc, 0, {}, 0)
RequestEv(h, d) == Event(EV_REQUEST, 0, "", 1, d, h)
PhySentEv(rc, len, d) == Event(EV_PHY_PACKET_SENT, 0, rc, len, d, 0)
PhyReceivedEv(len, d) == Event(EV_PHY_PACKET_RECEIVED, 0, "", len, d, 0)

(* --------------------- firewire-phy-command inputs --------------------- *)

\* the command functions a run may execute, by program
PhyCommands ==
    {"command_config", "command_ping", "command_read", "command_versaphy"}
WriteCommands == {"do_write", "do_broadcast"}
\* the lock commands that take one data block, and those that take two
SingleLockCommands == {"do_add_big", "do_add_little"}
DualLockCommands ==
    {"do_mask_swap", "do_compare_swap", "do_bounded_add", "do_wrap_add"}
LockCommands == SingleLockCommands \cup DualLockCommands
RequestCommands == {"do_read"} \cup WriteCommands \cup LockCommands
\* lsfirewirephy: one PHY of a bus, or every PHY up to the root
ScanCommands == {"list_phy", "list_all_buses"}
Commands == PhyCommands \cup RequestCommands \cup {"do_fcp"} \cup ScanCommands

\* node ids given on the command line (find_param_node)
NodeIds == {1}

\* PHY registers given to the read command
ReadRegs == {2}
ReadReg == CHOOSE r \in ReadRegs : TRUE

\* command_config: packet with a new root
ConfigPacket(node) == Or(Shl(W(1), 23), Shl(W(node), 24))

\* command_ping
PingPacket(node) == Or(Shl(W(0), 18), Shl(W(node), 24))
PingMask == Shl(W(255), 24)
PingBits(node) == Or(Shl(W(2), 30), Shl(W(node), 24))

\* command_read, page 0 and port 0
ReadPacket(node, r) ==
    Or(Or(Shl(W(1), 18), Shl(And(W(r), W(7)), 8)), Shl(W(node), 24))
ReadMask == Shl(W(16777215), 8)
ReadBits(node, r) == Or(ReadPacket(node, r), Shl(W(2), 18))

\* command_versaphy: the two quadlets of the command line
VersaQ0 == Shl(W(3), 30)
VersaQ1 == Or(Shl(W(4660), 16), W(22136))

\* a send_packet that repeats the quadlet
SendPacketSame(quadlet) == quadlet

\* send_packet: the second quadlet is the complement of the first
SendPacketQ1(quadlet) == Not(quadlet)

Quadlet0(cmd, node) ==
    CASE cmd = "command_config" -> ConfigPacket(node)
      [] cmd = "command_ping" -> PingPacket(node)
      [] cmd = "command_read" -> ReadPacket(node, ReadReg)
      [] cmd = "command_versaphy" -> VersaQ0
      [] OTHER -> W(0)

Quadlet1(cmd, node) ==
    CASE cmd = "command_versaphy" -> VersaQ1
      [] cmd \in PhyCommands -> SendPacketQ1(Quadlet0(cmd, node))
      [] OTHER -> W(0)

ResponseMask(cmd) ==
    CASE cmd = "command_ping" -> PingMask
      [] cmd = "command_read" -> ReadMask
      [] OTHER -> W(0)

ResponseBits(cmd, node) ==
    CASE cmd = "command_ping" -> PingBits(node)
      [] cmd = "command_read" -> ReadBits(node, ReadReg)
      [] OTHER -> W(0)

\* port fields of a Self-ID packet, one pattern for a packet that announces
\* another and one for the last of a chain
SelfIdPorts(more) ==
    IF more = 1
    THEN Or(Or(Or(Shl(W(1), 16), Shl(W(3), 14)), Or(Shl(W(2), 12), Shl(W(3), 8))),
            Or(Or(Shl(W(1), 6), Shl(W(2), 4)), Shl(W(3), 2)))
    ELSE Or(Or(Or(Shl(W(2), 16), Shl(W(1), 14)), Or(Shl(W(3), 12), Shl(W(1), 10))),
            Or(Or(Shl(W(3), 6), Shl(W(1), 4)), Shl(W(2), 2)))

\* a Self-ID packet of phy n; more = 1 when another packet follows
SelfIdWord(n, more) ==
    Or(Or(Or(Shl(W(2), 30), Shl(W(n), 24)), SelfIdPorts(more)), W(more))

\* a reply to the read command: register r of phy n holds v
ReadReplyWord(n, r, v) == Or(ReadBits(n, r), W(v))

\* PHY packets the bus may deliver while firewire-phy-command listens
RxWords ==
    {SelfIdWord(1, 1), SelfIdWord(1, 0), SelfIdWord(2, 1),
     ReadReplyWord(1, 2, 17), ReadReplyWord(1, 2, 34)}

\* ping times carried by PHY_PACKET_SENT
SentTicks == {W(5)}

(* ------------------------ firewire-request inputs ---------------------- *)

\* register offsets given on the command line: quadlet aligned or not
Addresses == {0, 3}

\* lengths given to the read command
ReadLengths == {4, 8}

\* data blocks given on the command line, as byte sequences
DataBlocks == {<<0, 0, 0, 1>>, <<0, 0, 0, 0, 0, 0, 0, 1>>, <<1, 2, 3>>}
Data2Blocks == {<<0, 0, 0, 2>>, <<0, 0, 0, 0, 0, 0, 0, 2>>, <<9>>}

\* handles and payloads of inbound requests
Handles == {7, 9}
Payloads == {W(170)}

(* ------------------------- lsfirewirephy inputs ------------------------ *)

\* phy ids of the root node (bus_reset.root_node_id & 0x3f)
RootPhyIds == {2}

PHY_REMOTE_ACCESS_PAGED(phy_id, page, port, r) ==
    Or(Or(Or(Or(Shl(W(phy_id), 24), Shl(W(5), 18)), Shl(W(page), 15)),
          Shl(W(port), 11)),
       Shl(W(r), 8))

PHY_REMOTE_REPLY_PAGED(phy_id, page, port, r, d) ==
    Or(Or(Or(Or(Or(Shl(W(phy_id), 24), Shl(W(7), 18)), Shl(W(page), 15)),
             Shl(W(port), 11)),
          Shl(W(r), 8)),
       W(d))

\* mask of the fields that select a reply: phy id, type, page, port
ScanReplyMask == Shl(W(131071), 15)

ScanRegs == 2..7

\* PHY packets the bus may deliver during the scan of phy id
ScanWords(id) ==
    {PHY_REMOTE_REPLY_PAGED(id, 1, 0, r, 16 + r) : r \in ScanRegs}
    \cup {PHY_REMOTE_REPLY_PAGED(id, 1, 0, 2, 34),
          PHY_REMOTE_REPLY_PAGED(id, 1, 0, 1, 17),
          PHY_REMOTE_REPLY_PAGED(id, 0, 0, 2, 51),
          PHY_REMOTE_REPLY_PAGED(id, 1, 1, 2, 51),
          PHY_REMOTE_REPLY_PAGED(id + 1, 1, 0, 2, 51)}

\* a register value that no reply has written yet (reg_values is a local
\* array without initializer)
Unwritten == 255 + 1

(* ------------------------------- read() -------------------------------- *)

\* sizeof(struct fw_cdev_event_common)
HeaderSize == 16

\* what read() may return when it returns no whole event: an error, or a
\* number of bytes below the size of the event header
ReadResults == {-1, 0, HeaderSize - 1}

\* a size test that lets every read pass
IsShortReadNever(r) == FALSE

\* r < sizeof(struct fw_cdev_event_common): the comparison is made in the
\* unsigned type of sizeof, where a negative r is above every size
IsShortRead(r) == r >= 0 /\ r < HeaderSize

(* ------------------------------- state -------------------------------- *)

VARIABLES
    command,            \* the command the run executes
    pc,                 \* position in the program
    exit_msg,           \* message of the exit(EXIT_FAILURE) taken, or ""
    nread,              \* events read so far
    evlog,              \* history: events read by phy, async and fcp
    last_event,         \* history: the event read last
    ioctls,             \* history: the ioctls issued, in order
    generation,         \* cached generation (generation, local_node->generation)
    open_generation,    \* history: generation read by GET_INFO
    param_node_id,
    quadlet0, quadlet1, response_mask, response_bits,
    wait_for_sent, wait_for_response, self_id_index, response,
    self_ids, ping_time,
    oob,                \* history: words written past self_ids[2]
    ports,              \* port fields command_ping printed, in order
    retval,             \* value returned by _send_packet
    address, read_length, data, data2,
    final_rcode,        \* rcode of the response that ended a request loop
    ack_received, response_received,
    printed,            \* payloads printed by do_fcp
    list_phy_id, reg, regs_read, reg_values,
    reported,           \* register values this call of list_phy printed
    replaced,           \* history: this call of list_phy has read a reply
                        \* for a register it had marked before
    root_phy_id,
    scan_log,           \* history: outcome of each finished call of list_phy
    kernel              \* the bus as the FireWire core knows it: its
                        \* generation, the generation announced last, the
                        \* events put on the device file so far and the
                        \* generation in which the last response was queued

phyVars == <<quadlet0, quadlet1, response_mask, response_bits, wait_for_sent,
             wait_for_response, self_id_index, response, self_ids, ping_time,
             oob, retval, param_node_id, ports>>
reqVars == <<address, read_length, data, data2, final_rcode, ack_received,
             response_received, printed>>
busVars == <<root_phy_id, scan_log>>
scanVars == <<list_phy_id, reg, regs_read, reg_values, reported, replaced,
              busVars>>
vars == <<command, pc, exit_msg, nread, evlog, last_event, ioctls, generation,
          open_generation, phyVars, reqVars, scanVars, kernel>>

StartPc(cmd) ==
    CASE cmd \in PhyCommands -> "phy_start"
      [] cmd \in LockCommands -> "lock_check"
      [] cmd \in RequestCommands -> "async_submit"
      [] cmd = "do_fcp" -> "fcp_allocate"
      [] OTHER -> "scan_send"

\* the state when the command function is entered: the device is open and
\* GET_INFO has filled in the generation
Init ==
    /\ command \in Commands
    /\ pc = StartPc(command)
    /\ exit_msg = ""
    /\ nread = 0
    /\ evlog = <<>>
    /\ last_event = NoEvent
    /\ ioctls = <<>>
    /\ generation \in Gens
    /\ open_generation = generation
    /\ param_node_id \in NodeIds
    /\ quadlet0 = Quadlet0(command, param_node_id)
    /\ quadlet1 = Quadlet1(command, param_node_id)
    /\ response_mask = ResponseMask(command)
    /\ response_bits = ResponseBits(command, param_node_id)
    /\ wait_for_sent = TRUE
    /\ wait_for_response = (response_mask # W(0))
    /\ self_id_index = 0
    /\ response = W(0)
    /\ self_ids = [i \in 0..(SelfIdsSize - 1) |-> W(0)]
    /\ ping_time = W(0)
    /\ oob = 0
    /\ ports = <<>>
    /\ retval = W(0)
    /\ address \in (IF command \in {"do_read"} \cup WriteCommands
                     THEN Addresses ELSE {0})
    /\ read_length \in (IF command = "do_read" THEN ReadLengths ELSE {0})
    /\ data \in (IF command \in WriteCommands \cup LockCommands \cup {"do_fcp"}
                  THEN DataBlocks ELSE {<<>>})
    /\ data2 \in (IF command \in DualLockCommands THEN Data2Blocks ELSE {<<>>})
    /\ final_rcode = ""
    /\ ack_received = FALSE
    /\ response_received = FALSE
    /\ printed = <<>>
    /\ list_phy_id \in (IF command = "list_all_buses" THEN {0} ELSE NodeIds)
    /\ reg = 2
    /\ regs_read = W(0)
    /\ reg_values = [r \in ScanRegs |-> Unwritten]
    /\ reported = <<>>
    /\ replaced = FALSE
    /\ root_phy_id \in RootPhyIds
    /\ scan_log = <<>>
    /\ kernel = [generation |-> generation, announced |-> generation,
                 queue |-> <<>>, answered |-> generation]

(* --------------------------- common steps ----------------------------- *)

\* one ioctl as the kernel receives it; at is the number of events read
\* before it was issued
Ioctl(op, g, d0, d1, tc, len, payload, h, rc) ==
    [op |-> op, generation |-> g, d0 |-> d0, d1 |-> d1, tcode |-> tc,
     length |-> len, data |-> payload, handle |-> h, rcode |-> rc,
     at |-> nread]

ReceivePhyPacketsIoctl ==
    Ioctl("RECEIVE_PHY_PACKETS", 0, {}, {}, "", 0, <<>>, 0, "")
SendPhyPacketIoctl(g, d0, d1) ==
    Ioctl("SEND_PHY_PACKET", g, d0, d1, "", 0, <<>>, 0, "")
SendRequestIoctl(op, g, tc, len, payload) ==
    Ioctl(op, g, {}, {}, tc, len, payload, 0, "")
AllocateIoctl == Ioctl("ALLOCATE", 0, {}, {}, "", 0, <<>>, 0, "")
\* issued in the step that reads the request it answers
SendResponseIoctl(h, rc) ==
    [Ioctl("SEND_RESPONSE", 0, {}, {}, "", 0, <<>>, h, rc)
        EXCEPT !.at = nread + 1]

\* perror/fputs followed by exit(EXIT_FAILURE)
Exit(msg) ==
    /\ pc' = "exit"
    /\ exit_msg' = msg

\* the buffer is interpreted as the event ev: read() returned a whole
\* event (a read() that fails passes the size test as well and leaves in
\* the buffer what it held); logged tells whether the history keeps it
Read(ev, logged) ==
    /\ nread' = nread + 1
    /\ last_event' = ev
    /\ evlog' = IF logged THEN Append(evlog, ev) ELSE evlog

NoRead == UNCHANGED <<nread, last_event, evlog>>

(* ------------------ firewire-phy-command: _send_packet ----------------- *)

\* a test that takes every received packet for the response
MatchesAny(d) == TRUE

\* (event.phy_packet.data[0] & response_mask) == response_bits
Matches(d) == And(d, response_mask) = response_bits

\* a branch that takes every accepted packet for a Self-ID packet
IsSelfIdAlways(d) == TRUE

\* (response & 0xc0000000) == 0x80000000
IsSelfId(d) == And(d, Shl(W(3), 30)) = Shl(W(2), 30)

\* a transaction that never asks for received PHY packets
PhyListensNever == FALSE

\* if (wait_for_response), before the packet is sent
PhyListens == wait_for_response

\* wait_for_response on entry: a response is expected when a mask is given
\* if (wait_for_response) ioctl(RECEIVE_PHY_PACKETS)
PhyEnableReception ==
    /\ pc = "phy_start"
    /\ PhyListens
    /\ ioctls' = Append(ioctls, ReceivePhyPacketsIoctl)
    /\ pc' = "phy_send"
    /\ NoRead
    /\ UNCHANGED <<kernel, command, exit_msg, generation, open_generation, phyVars,
                   reqVars, scanVars>>

\* ioctl(SEND_PHY_PACKET) with the cached generation
PhySend ==
    /\ \/ pc = "phy_send"
       \/ pc = "phy_start" /\ ~PhyListens
    /\ ioctls' = Append(ioctls,
                        SendPhyPacketIoctl(generation, quadlet0, quadlet1))
    /\ pc' = "phy_loop"
    /\ NoRead
    /\ UNCHANGED <<kernel, command, exit_msg, generation, open_generation, phyVars,
                   reqVars, scanVars>>

\* either ioctl fails
PhyIoctlFail ==
    /\ pc \in {"phy_start", "phy_send"}
    /\ Exit("ioctl failed")
    /\ NoRead
    /\ UNCHANGED <<kernel, command, ioctls, generation, open_generation, phyVars,
                   reqVars, scanVars>>

\* a loop condition that ends the wait as soon as either signal is in
PhyWaitingForBoth == wait_for_sent /\ wait_for_response

\* while (wait_for_sent || wait_for_response)
PhyWaiting == wait_for_sent \/ wait_for_response

PhyLooping ==
    /\ pc = "phy_loop"
    /\ PhyWaiting

\* poll() returns 0
PhyTimeout ==
    /\ PhyLooping
    /\ Exit("timeout")
    /\ NoRead
    /\ UNCHANGED <<kernel, command, ioctls, generation, open_generation, phyVars,
                   reqVars, scanVars>>

\* read() returns less than the event header (a failing poll() takes the
\* same exit with another message)
PhyShortRead ==
    /\ PhyLooping
    /\ \E r \in ReadResults : IsShortRead(r)
    /\ Exit("short read")
    /\ NoRead
    /\ UNCHANGED <<kernel, command, ioctls, generation, open_generation, phyVars,
                   reqVars, scanVars>>

\* a loop that notes the bus reset and goes on waiting
PhyBusResetIgnored ==
    /\ PhyLooping
    /\ nread < MaxEvents
    /\ \E g \in Gens : Read(BusResetEv(g), TRUE)
    /\ UNCHANGED <<kernel, command, pc, exit_msg, ioctls, generation, open_generation,
                   phyVars, reqVars, scanVars>>

\* case FW_CDEV_EVENT_BUS_RESET
PhyBusReset ==
    /\ PhyLooping
    /\ nread < MaxEvents
    /\ \E g \in Gens : Read(BusResetEv(g), TRUE)
    /\ Exit("bus reset")
    /\ UNCHANGED <<kernel, command, ioctls, generation, open_generation, phyVars,
                   reqVars, scanVars>>

\* a sent branch that drops the time stamp
PhySentClearsOnly(ev) ==
    /\ wait_for_sent' = FALSE
    /\ UNCHANGED ping_time

\* case FW_CDEV_EVENT_PHY_PACKET_SENT
PhySentEffect(ev) ==
    /\ wait_for_sent' = FALSE
    /\ ping_time' = IF ev.length >= 4 THEN ev.data ELSE ping_time

PhySent ==
    /\ PhyLooping
    /\ nread < MaxEvents
    /\ \E len \in {0, 4}, t \in SentTicks :
          LET ev == PhySentEv(RCODE_COMPLETE, len, IF len = 0 THEN W(0) ELSE t) IN
          /\ Read(ev, TRUE)
          /\ PhySentEffect(ev)
    /\ UNCHANGED <<kernel, command, pc, exit_msg, ioctls, generation, open_generation,
                   quadlet0, quadlet1, response_mask, response_bits,
                   wait_for_response, self_id_index, response, self_ids, oob,
                   retval, param_node_id, ports, reqVars, scanVars>>

\* self_ids[self_id_index++] = response; past the end of the array the
\* store lands in whatever follows self_ids: it is counted in oob and
\* may or may not overwrite the neighbouring ping_time
SelfIdStore(d) ==
    /\ self_id_index' = self_id_index + 1
    /\ IF self_id_index < SelfIdsSize
       THEN /\ self_ids' = [self_ids EXCEPT ![self_id_index] = d]
            /\ UNCHANGED <<oob, ping_time>>
       ELSE /\ UNCHANGED self_ids
            /\ oob' = oob + 1
            /\ ping_time' \in {ping_time, d}

\* a Self-ID branch that looks at the continuation bit alone
SelfIdEndsWaitOnBitOnly(d) == And(d, W(1)) = W(0)

\* the Self-ID branch ends the wait when the array is full or the word
\* announces no further packet
SelfIdEndsWait(d) == self_id_index + 1 >= SelfIdsSize \/ And(d, W(1)) = W(0)

\* case FW_CDEV_EVENT_PHY_PACKET_RECEIVED
PhyReceivedEffect(d) ==
    IF Matches(d)
    THEN /\ response' = d
         /\ IF IsSelfId(d)
            THEN /\ SelfIdStore(d)
                 /\ wait_for_response' =
                        IF SelfIdEndsWait(d) THEN FALSE ELSE wait_for_response
            ELSE /\ wait_for_response' = FALSE
                 /\ UNCHANGED <<self_id_index, self_ids, oob, ping_time>>
    ELSE UNCHANGED <<response, wait_for_response, self_id_index, self_ids, oob,
                     ping_time>>

PhyReceived ==
    /\ PhyLooping
    /\ nread < MaxEvents
    /\ \E d \in RxWords :
          /\ Read(PhyReceivedEv(8, d), TRUE)
          /\ PhyReceivedEffect(d)
    /\ UNCHANGED <<kernel, command, pc, exit_msg, ioctls, generation, open_generation,
                   quadlet0, quadlet1, response_mask, response_bits,
                   wait_for_sent, retval, param_node_id, ports, reqVars,
                   scanVars>>

\* any other event type: the switch has no case for it
PhyOtherEvent ==
    /\ PhyLooping
    /\ nread < MaxEvents
    /\ Read(ResponseEv(RCODE_COMPLETE), TRUE)
    /\ UNCHANGED <<kernel, command, pc, exit_msg, ioctls, generation, open_generation,
                   phyVars, reqVars, scanVars>>

\* the loop condition fails: return response
PhyReturn ==
    /\ pc = "phy_loop"
    /\ ~PhyWaiting
    /\ pc' = "phy_returned"
    /\ retval' = response
    /\ NoRead
    /\ UNCHANGED <<kernel, command, exit_msg, ioctls, generation, open_generation,
                   quadlet0, quadlet1, response_mask, response_bits,
                   wait_for_sent, wait_for_response, self_id_index, response,
                   self_ids, ping_time, oob, param_node_id, ports, reqVars,
                   scanVars>>

\* a print_port that takes the pair of bits below the one asked for
PrintPortBelow(self_id, shift) == ValueOf(And(Shr(self_id, shift - 2), W(3)))

\* print_port: fputs(port[(self_id >> shift) & 3])
PrintPort(self_id, shift) == ValueOf(And(Shr(self_id, shift), W(3)))

\* the three print_port calls on self_ids[0]
PingFirstPorts == <<PrintPort(self_ids[0], 6), PrintPort(self_ids[0], 4),
                    PrintPort(self_ids[0], 2)>>

\* the eight print_port calls on self_ids[i], i >= 1
PingMorePorts(i) ==
    <<PrintPort(self_ids[i], 16), PrintPort(self_ids[i], 14),
      PrintPort(self_ids[i], 12), PrintPort(self_ids[i], 10),
      PrintPort(self_ids[i], 8), PrintPort(self_ids[i], 6),
      PrintPort(self_ids[i], 4), PrintPort(self_ids[i], 2)>>

\* a decoder that prints every word of the array
PingGoesOnAlways(i) == TRUE

\* self_ids[0] & 1 before the loop, !(self_ids[i] & 1) -> break in it
PingGoesOn(i) == And(self_ids[i], W(1)) # W(0)

RECURSIVE PingPortsFrom(_)
\* for (i = 1; i < ARRAY_SIZE(self_ids); ++i), entered at i
PingPortsFrom(i) ==
    IF i >= SelfIdsSize THEN <<>>
    ELSE PingMorePorts(i) \o
         (IF PingGoesOn(i) THEN PingPortsFrom(i + 1) ELSE <<>>)

\* command_ping after send_packet has returned: the port fields it prints
PingPrint ==
    /\ command = "command_ping"
    /\ pc = "phy_returned"
    /\ ports' = PingFirstPorts \o
                 (IF PingGoesOn(0) THEN PingPortsFrom(1) ELSE <<>>)
    /\ pc' = "ping_printed"
    /\ NoRead
    /\ UNCHANGED <<kernel, command, exit_msg, ioctls, generation, open_generation,
                   quadlet0, quadlet1, response_mask, response_bits,
                   wait_for_sent, wait_for_response, self_id_index, response,
                   self_ids, ping_time, oob, retval, param_node_id, reqVars,
                   scanVars>>

SendPacket ==
    \/ PhyEnableReception
    \/ PhySend
    \/ PhyIoctlFail
    \/ PhyTimeout
    \/ PhyShortRead
    \/ PhyBusReset
    \/ PhySent
    \/ PhyReceived
    \/ PhyOtherEvent
    \/ PhyReturn
    \/ PingPrint

(* ---------------- firewire-request: asynchronous requests -------------- *)

\* the tcode each lock command passes to do_lock_request
LockTcode(cmd) ==
    CASE cmd = "do_mask_swap" -> "TCODE_LOCK_MASK_SWAP"
      [] cmd = "do_compare_swap" -> "TCODE_LOCK_COMPARE_SWAP"
      [] cmd = "do_add_big" -> "TCODE_LOCK_FETCH_ADD"
      [] cmd = "do_add_little" -> "TCODE_LOCK_LITTLE_ADD"
      [] cmd = "do_bounded_add" -> "TCODE_LOCK_BOUNDED_ADD"
      [] cmd = "do_wrap_add" -> "TCODE_LOCK_WRAP_ADD"
      [] OTHER -> ""

\* has_data2 of do_lock_request
HasData2(cmd) ==
    LockTcode(cmd) # "TCODE_LOCK_FETCH_ADD"
    /\ LockTcode(cmd) # "TCODE_LOCK_LITTLE_ADD"

\* the two checks do_lock_request makes before it builds the request
LockSizeError ==
    \/ (Len(data) # 4 /\ Len(data) # 8)
    \/ (HasData2(command) /\ (Len(data2) # 4 /\ Len(data2) # 8))

\* a check of the sizes one by one only
LockMismatchUnchecked == FALSE

LockMismatchError == HasData2(command) /\ Len(data) # Len(data2)

LockReject ==
    /\ pc = "lock_check"
    /\ \/ LockSizeError /\ Exit("data size must be 32 or 64 bits")
       \/ ~LockSizeError /\ LockMismatchError
          /\ Exit("both data blocks must have the same size")
    /\ NoRead
    /\ UNCHANGED <<kernel, command, ioctls, generation, open_generation, phyVars,
                   reqVars, scanVars>>

LockAccept ==
    /\ pc = "lock_check"
    /\ ~LockSizeError
    /\ ~LockMismatchError
    /\ pc' = "async_submit"
    /\ NoRead
    /\ UNCHANGED <<kernel, command, exit_msg, ioctls, generation, open_generation,
                   phyVars, reqVars, scanVars>>

\* a tcode chosen by the length alone
RequestTcodeByLength(cmd) ==
    CASE cmd = "do_read" ->
            IF read_length = 4
            THEN "TCODE_READ_QUADLET_REQUEST" ELSE "TCODE_READ_BLOCK_REQUEST"
      [] cmd \in WriteCommands ->
            IF Len(data) = 4
            THEN "TCODE_WRITE_QUADLET_REQUEST" ELSE "TCODE_WRITE_BLOCK_REQUEST"
      [] OTHER -> LockTcode(cmd)

\* send_request.tcode
RequestTcode(cmd) ==
    CASE cmd = "do_read" ->
            IF read_length = 4 /\ address % 4 = 0
            THEN "TCODE_READ_QUADLET_REQUEST" ELSE "TCODE_READ_BLOCK_REQUEST"
      [] cmd \in WriteCommands ->
            IF Len(data) = 4 /\ address % 4 = 0
            THEN "TCODE_WRITE_QUADLET_REQUEST" ELSE "TCODE_WRITE_BLOCK_REQUEST"
      [] OTHER -> LockTcode(cmd)

\* a lock request that carries the second data block first
RequestDataSwapped(cmd) ==
    CASE cmd = "do_read" -> <<>>
      [] cmd \in WriteCommands -> data
      [] OTHER -> IF HasData2(cmd) THEN data2 \o data ELSE data

\* send_request.length
RequestLength(cmd) ==
    CASE cmd = "do_read" -> read_length
      [] cmd \in WriteCommands -> Len(data)
      [] OTHER -> IF HasData2(cmd) THEN Len(data) * 2 ELSE Len(data)

\* the bytes send_request.data points to
RequestData(cmd) ==
    CASE cmd = "do_read" -> <<>>
      [] cmd \in WriteCommands -> data
      [] OTHER -> IF HasData2(cmd) THEN data \o data2 ELSE data

RequestOp(cmd) ==
    IF cmd = "do_broadcast" THEN "SEND_BROADCAST_REQUEST" ELSE "SEND_REQUEST"

\* a request stamped with the generation read when the device was opened
StampedGenerationAtOpen == open_generation

\* send_request.generation = generation
StampedGeneration == generation

\* the body of the do ... while loop up to the ioctl
AsyncSubmit ==
    /\ pc = "async_submit"
    /\ ioctls' = Append(ioctls,
                        SendRequestIoctl(RequestOp(command), StampedGeneration,
                                         RequestTcode(command),
                                         RequestLength(command),
                                         RequestData(command)))
    /\ pc' = "async_wait"
    /\ NoRead
    /\ UNCHANGED <<kernel, command, exit_msg, generation, open_generation, phyVars,
                   reqVars, scanVars>>

AsyncIoctlFail ==
    /\ pc = "async_submit"
    /\ Exit("SEND_REQUEST ioctl failed")
    /\ NoRead
    /\ UNCHANGED <<kernel, command, ioctls, generation, open_generation, phyVars,
                   reqVars, scanVars>>

\* a wait that answers a silent poll by sending the request again
AsyncTimeoutRetry ==
    /\ pc = "async_wait"
    /\ Len(ioctls) <= MaxEvents
    /\ exit_msg' = "timeout (no ack)"
    /\ pc' = "async_submit"
    /\ NoRead
    /\ UNCHANGED <<kernel, command, ioctls, generation, open_generation, phyVars,
                   reqVars, scanVars>>

\* wait_for_response: poll() returns 0
AsyncTimeout ==
    /\ pc = "async_wait"
    /\ Exit("timeout (no ack)")
    /\ NoRead
    /\ UNCHANGED <<kernel, command, ioctls, generation, open_generation, phyVars,
                   reqVars, scanVars>>

\* wait_for_response: read() returns less than the event header (a failing
\* poll() takes the same exit with another message)
AsyncShortRead ==
    /\ pc = "async_wait"
    /\ \E r \in ReadResults : IsShortRead(r)
    /\ Exit("short read")
    /\ NoRead
    /\ UNCHANGED <<kernel, command, ioctls, generation, open_generation, phyVars,
                   reqVars, scanVars>>

\* a loop that repeats the request on every failure
ResubmitOnError(rc) == rc # RCODE_COMPLETE

\* while (response->rcode == RCODE_GENERATION)
Resubmit(rc) == rc = RCODE_GENERATION

\* wait_for_response returns the response; the loop condition is tested
AsyncResponse ==
    /\ pc = "async_wait"
    /\ nread < MaxEvents
    /\ \E rc \in Rcodes :
          /\ Read(ResponseEv(rc), TRUE)
          /\ IF Resubmit(rc)
             THEN pc' = "async_submit" /\ UNCHANGED final_rcode
             ELSE pc' = "async_done" /\ final_rcode' = rc
    /\ UNCHANGED <<kernel, command, exit_msg, ioctls, generation, open_generation,
                   phyVars, address, read_length, data, data2, ack_received,
                   response_received, printed, scanVars>>

\* a wait that reads the bus reset event and keeps the old generation
WaitBusResetIgnored(ev) == generation

\* generation = event_bus_reset->generation
WaitBusResetGeneration(ev) == ev.generation

\* wait_for_response reads a bus reset event and keeps waiting
AsyncBusReset ==
    /\ pc = "async_wait"
    /\ nread < MaxEvents
    /\ \E g \in Gens :
          /\ Read(BusResetEv(g), TRUE)
          /\ generation' = WaitBusResetGeneration(BusResetEv(g))
    /\ UNCHANGED <<kernel, command, pc, exit_msg, ioctls, open_generation, phyVars,
                   reqVars, scanVars>>

\* a wait that answers the inbound requests it reads
AsyncOtherEventAnswered ==
    /\ pc = "async_wait"
    /\ nread < MaxEvents
    /\ \E h \in Handles, d \in Payloads :
          /\ Read(RequestEv(h, d), TRUE)
          /\ ioctls' = Append(ioctls, SendResponseIoctl(h, RCODE_COMPLETE))
    /\ UNCHANGED <<kernel, command, pc, exit_msg, generation, open_generation,
                   phyVars, reqVars, scanVars>>

\* wait_for_response reads an event of any other type and keeps waiting
AsyncOtherEvent ==
    /\ pc = "async_wait"
    /\ nread < MaxEvents
    /\ \E h \in Handles, d \in Payloads : Read(RequestEv(h, d), TRUE)
    /\ UNCHANGED <<kernel, command, pc, exit_msg, ioctls, generation, open_generation,
                   phyVars, reqVars, scanVars>>

SendAsync ==
    \/ LockReject
    \/ LockAccept
    \/ AsyncSubmit
    \/ AsyncIoctlFail
    \/ AsyncTimeout
    \/ AsyncShortRead
    \/ AsyncResponse
    \/ AsyncBusReset
    \/ AsyncOtherEvent

(* ----------------------- firewire-request: do_fcp ---------------------- *)

\* an exchange that sends the command without a range for the reply
FcpAllocateSkipped ==
    /\ pc = "fcp_allocate"
    /\ pc' = "fcp_send"
    /\ NoRead
    /\ UNCHANGED <<kernel, command, exit_msg, ioctls, generation, open_generation,
                   phyVars, reqVars, scanVars>>

\* ioctl(FW_CDEV_IOC_ALLOCATE) for the FCP response range
FcpAllocate ==
    /\ pc = "fcp_allocate"
    /\ ioctls' = Append(ioctls, AllocateIoctl)
    /\ pc' = "fcp_send"
    /\ NoRead
    /\ UNCHANGED <<kernel, command, exit_msg, generation, open_generation, phyVars,
                   reqVars, scanVars>>

FcpTcode ==
    IF Len(data) = 4 THEN "TCODE_WRITE_QUADLET_REQUEST"
    ELSE "TCODE_WRITE_BLOCK_REQUEST"

FcpSend ==
    /\ pc = "fcp_send"
    /\ ioctls' = Append(ioctls,
                        SendRequestIoctl("SEND_REQUEST", generation, FcpTcode,
                                         Len(data), data))
    /\ ack_received' = FALSE
    /\ response_received' = FALSE
    /\ pc' = "fcp_loop"
    /\ NoRead
    /\ UNCHANGED <<kernel, command, exit_msg, generation, open_generation, phyVars,
                   address, read_length, data, data2, final_rcode, printed,
                   scanVars>>

\* the ALLOCATE or the SEND_REQUEST ioctl fails
FcpIoctlFail ==
    /\ pc \in {"fcp_allocate", "fcp_send"}
    /\ Exit(IF pc = "fcp_allocate" THEN "ALLOCATE ioctl failed"
            ELSE "SEND_REQUEST ioctl failed")
    /\ NoRead
    /\ UNCHANGED <<kernel, command, ioctls, generation, open_generation, phyVars,
                   reqVars, scanVars>>

\* while (!ack_received && !response_received)
FcpLooping ==
    /\ pc = "fcp_loop"
    /\ ~ack_received /\ ~response_received

FcpTimeout ==
    /\ FcpLooping
    /\ Exit(IF ~ack_received THEN "timeout (no ack)"
            ELSE "timeout (no response)")
    /\ NoRead
    /\ UNCHANGED <<kernel, command, ioctls, generation, open_generation, phyVars,
                   reqVars, scanVars>>

FcpShortRead ==
    /\ FcpLooping
    /\ \E r \in ReadResults : IsShortRead(r)
    /\ Exit("short read")
    /\ NoRead
    /\ UNCHANGED <<kernel, command, ioctls, generation, open_generation, phyVars,
                   reqVars, scanVars>>

FcpBusReset ==
    /\ FcpLooping
    /\ nread < MaxEvents
    /\ \E g \in Gens : Read(BusResetEv(g), TRUE)
    /\ Exit("bus reset")
    /\ UNCHANGED <<kernel, command, ioctls, generation, open_generation, phyVars,
                   reqVars, scanVars>>

\* an exchange that sends the command again when its generation was stale
FcpRetryStale(rc) ==
    IF rc = RCODE_GENERATION THEN "fcp_send" ELSE "fcp_done"

\* print_rcode(response->rcode); return;
FcpFailed(rc) == "fcp_done"

\* a response event: any rcode but COMPLETE is printed and do_fcp returns
FcpResponse ==
    /\ FcpLooping
    /\ nread < MaxEvents
    /\ \E rc \in Rcodes :
          /\ Read(ResponseEv(rc), TRUE)
          /\ IF rc # RCODE_COMPLETE
             THEN /\ pc' = FcpFailed(rc)
                  /\ final_rcode' = rc
                  /\ UNCHANGED ack_received
             ELSE /\ ack_received' = TRUE
                  /\ UNCHANGED <<pc, final_rcode>>
    /\ UNCHANGED <<kernel, command, exit_msg, ioctls, generation, open_generation,
                   phyVars, address, read_length, data, data2,
                   response_received, printed, scanVars>>

\* an answer that reports the node busy
FcpAnswerBusy(request) == SendResponseIoctl(request.handle, RCODE_BUSY)

\* send_response(request->handle, RCODE_COMPLETE)
FcpAnswer(request) == SendResponseIoctl(request.handle, RCODE_COMPLETE)

\* a request event: send_response(handle, RCODE_COMPLETE), print_data
FcpRequest ==
    /\ FcpLooping
    /\ nread < MaxEvents
    /\ \E h \in Handles, d \in Payloads :
          /\ Read(RequestEv(h, d), TRUE)
          /\ \/ /\ ioctls' = Append(ioctls, FcpAnswer(RequestEv(h, d)))
                /\ printed' = Append(printed, d)
                /\ UNCHANGED <<pc, exit_msg>>
             \/ /\ Exit("SEND_RESPONSE ioctl failed")
                /\ UNCHANGED <<ioctls, printed>>
    /\ UNCHANGED <<kernel, command, generation, open_generation, phyVars, address,
                   read_length, data, data2, final_rcode, ack_received,
                   response_received, scanVars>>

\* an event of any other type
FcpOtherEvent ==
    /\ FcpLooping
    /\ nread < MaxEvents
    /\ Read(PhySentEv(RCODE_COMPLETE, 0, W(0)), TRUE)
    /\ UNCHANGED <<kernel, command, pc, exit_msg, ioctls, generation, open_generation,
                   phyVars, reqVars, scanVars>>

\* the loop condition fails: do_fcp returns
FcpReturn ==
    /\ pc = "fcp_loop"
    /\ ~(~ack_received /\ ~response_received)
    /\ pc' = "fcp_done"
    /\ NoRead
    /\ UNCHANGED <<kernel, command, exit_msg, ioctls, generation, open_generation,
                   phyVars, reqVars, scanVars>>

DoFcp ==
    \/ FcpAllocate
    \/ FcpSend
    \/ FcpIoctlFail
    \/ FcpTimeout
    \/ FcpShortRead
    \/ FcpBusReset
    \/ FcpResponse
    \/ FcpRequest
    \/ FcpOtherEvent
    \/ FcpReturn

(* ------------------------ lsfirewirephy: list_phy ---------------------- *)

\* a send loop that leaves after the packet for register 2
ScanSendingFirstOnly == reg <= 2

\* the condition of for (reg = 2; reg <= 7; ++reg)
ScanSending == reg <= 7

\* one turn of for (reg = 2; reg <= 7; ++reg): a remote access packet and
\* its complement, stamped with bus_reset.generation
ScanSend ==
    /\ pc = "scan_send"
    /\ ScanSending
    /\ LET d0 == PHY_REMOTE_ACCESS_PAGED(list_phy_id, 1, 0, reg) IN
       ioctls' = Append(ioctls, SendPhyPacketIoctl(generation, d0, Not(d0)))
    /\ reg' = reg + 1
    /\ NoRead
    /\ UNCHANGED <<kernel, command, pc, exit_msg, generation, open_generation, phyVars,
                   reqVars, list_phy_id, regs_read, reg_values, reported,
                   replaced, busVars>>

ScanIoctlFail ==
    /\ pc = "scan_send"
    /\ ScanSending
    /\ Exit("SEND_PHY_PACKET ioctl failed")
    /\ NoRead
    /\ UNCHANGED <<kernel, command, ioctls, generation, open_generation, phyVars,
                   reqVars, scanVars>>

\* a scan that goes on with the mask the call before left
ScanMaskKept == regs_read

\* regs_read = 0
ScanMaskAtStart == W(0)

\* regs_read = 0 and the loop is entered
ScanBegin ==
    /\ pc = "scan_send"
    /\ ~ScanSending
    /\ regs_read' = ScanMaskAtStart
    /\ pc' = "scan_loop"
    /\ NoRead
    /\ UNCHANGED <<kernel, command, exit_msg, ioctls, generation, open_generation,
                   phyVars, reqVars, list_phy_id, reg, reg_values, reported,
                   replaced, busVars>>

\* while (regs_read != 0xfc)
ScanLooping ==
    /\ pc = "scan_loop"
    /\ regs_read # AllRegsRead

\* the device file has another event for this run
ScanReadable ==
    nread < (IF command = "list_all_buses" THEN MaxBusEvents
             ELSE MaxScanEvents)

\* what a finished call of list_phy wrote: "timeout", or the values
ScanOutcome(timeout, values) ==
    [phy_id |-> list_phy_id, timeout |-> timeout, values |-> values]

\* a scan that ends the run when a PHY does not answer
ScanTimeoutExit ==
    /\ Exit("timeout")
    /\ scan_log' = Append(scan_log, ScanOutcome(TRUE, <<>>))

\* fputs("timeout\n", stderr); return;
ScanTimeoutReturn ==
    /\ pc' = "scan_timeout"
    /\ UNCHANGED exit_msg
    /\ scan_log' = Append(scan_log, ScanOutcome(TRUE, <<>>))

\* poll() returns 0: return, try next PHY
ScanTimeout ==
    /\ ScanLooping
    /\ ScanTimeoutReturn
    /\ NoRead
    /\ UNCHANGED <<kernel, command, ioctls, generation, open_generation,
                   phyVars, reqVars, list_phy_id, reg, regs_read, reg_values,
                   reported, replaced, root_phy_id>>

ScanShortRead ==
    /\ ScanLooping
    /\ \E r \in ReadResults : IsShortRead(r)
    /\ Exit("short read")
    /\ NoRead
    /\ UNCHANGED <<kernel, command, ioctls, generation, open_generation, phyVars,
                   reqVars, scanVars>>

ScanBusReset ==
    /\ ScanLooping
    /\ ScanReadable
    /\ \E g \in Gens : Read(BusResetEv(g), FALSE)
    /\ Exit("bus reset")
    /\ UNCHANGED <<kernel, command, ioctls, generation, open_generation, phyVars,
                   reqVars, scanVars>>

\* a loop that reads the sent events without looking at the rcode
ScanSentUnchecked ==
    /\ ScanLooping
    /\ ScanReadable
    /\ \E rc \in {RCODE_COMPLETE, RCODE_BUSY} :
          Read(PhySentEv(rc, 0, W(0)), FALSE)
    /\ UNCHANGED <<kernel, command, pc, exit_msg, ioctls, generation,
                   open_generation, phyVars, reqVars, scanVars>>

\* a sent event: any rcode but COMPLETE ends the run
ScanSent ==
    /\ ScanLooping
    /\ ScanReadable
    /\ \E rc \in {RCODE_COMPLETE, RCODE_BUSY} :
          /\ Read(PhySentEv(rc, 0, W(0)), FALSE)
          /\ IF rc # RCODE_COMPLETE
             THEN Exit("PHY packet failed")
             ELSE UNCHANGED <<pc, exit_msg>>
    /\ UNCHANGED <<kernel, command, ioctls, generation, open_generation, phyVars,
                   reqVars, scanVars>>

\* the reply test of list_phy
ScanReplyMatches(len, d) ==
    /\ len = 8
    /\ And(d, ScanReplyMask) = PHY_REMOTE_REPLY_PAGED(list_phy_id, 1, 0, 0, 0)

\* a register number read one bit too high
ScanReplyRegOff(d) == ValueOf(And(Shr(d, 9), W(7)))

\* reg = (phy_packet->data[0] >> 8) & 7
ScanReplyReg(d) == ValueOf(And(Shr(d, 8), W(7)))

\* a branch that takes the reply for any register
ScanRegAny(r) == TRUE

\* if (reg >= 2)
ScanRegWanted(r) == r >= 2

\* a branch that keeps the first value stored for a register
ScanReceivedFirstOnly(len, d) ==
    IF /\ ScanReplyMatches(len, d)
       /\ ScanRegWanted(ScanReplyReg(d))
       /\ ScanReplyReg(d) \notin regs_read
    THEN /\ reg_values' = [reg_values EXCEPT
                              ![ScanReplyReg(d)] = ValueOf(And(d, W(255)))]
         /\ regs_read' = Or(regs_read, Shl(W(1), ScanReplyReg(d)))
    ELSE UNCHANGED <<reg_values, regs_read>>

\* (reg is assigned anew before each use in this branch, so the model
\* keeps in reg only the counter of the send loop)
ScanReceivedEffect(len, d) ==
    IF ScanReplyMatches(len, d) /\ ScanRegWanted(ScanReplyReg(d))
    THEN /\ reg_values' = [reg_values EXCEPT
                              ![ScanReplyReg(d)] = ValueOf(And(d, W(255)))]
         /\ regs_read' = Or(regs_read, Shl(W(1), ScanReplyReg(d)))
    ELSE UNCHANGED <<reg_values, regs_read>>

ScanReceived ==
    /\ ScanLooping
    /\ ScanReadable
    /\ \E d \in ScanWords(list_phy_id), len \in {8, 4} :
          /\ len = 4 => d = PHY_REMOTE_REPLY_PAGED(list_phy_id, 1, 0, 2, 34)
          /\ Read(PhyReceivedEv(len, d), FALSE)
          /\ ScanReceivedEffect(len, d)
          /\ replaced' = (replaced \/ (/\ ScanReplyMatches(len, d)
                                       /\ ScanReplyReg(d) \in regs_read))
    /\ UNCHANGED <<kernel, command, pc, exit_msg, ioctls, generation, open_generation,
                   phyVars, reqVars, list_phy_id, reg, reported, busVars>>

ScanOtherEvent ==
    /\ ScanLooping
    /\ ScanReadable
    /\ Read(ResponseEv(RCODE_COMPLETE), FALSE)
    /\ UNCHANGED <<kernel, command, pc, exit_msg, ioctls, generation, open_generation,
                   phyVars, reqVars, scanVars>>

\* the loop condition fails: the six values are combined and printed
ScanComplete ==
    /\ pc = "scan_loop"
    /\ regs_read = AllRegsRead
    /\ reported' = [i \in 1..6 |-> reg_values[i + 1]]
    /\ scan_log' = Append(scan_log, ScanOutcome(FALSE, reported'))
    /\ pc' = "scan_done"
    /\ NoRead
    /\ UNCHANGED <<kernel, command, exit_msg, ioctls, generation, open_generation,
                   phyVars, reqVars, list_phy_id, reg, regs_read, reg_values,
                   replaced, root_phy_id>>

\* list_phy has returned to list_all_buses
ScanReturned == pc \in {"scan_timeout", "scan_done"}

\* ++list_phy_id, list_phy_id <= root_phy_id: list_phy() is entered anew;
\* its reg_values is a local array without initializer: the contents are
\* indeterminate (Unwritten), whatever the call before left there
ListAllNext ==
    /\ command = "list_all_buses"
    /\ ScanReturned
    /\ list_phy_id + 1 <= root_phy_id
    /\ list_phy_id' = list_phy_id + 1
    /\ reg' = 2
    /\ reg_values' = [r \in ScanRegs |-> Unwritten]
    /\ reported' = <<>>
    /\ replaced' = FALSE
    /\ pc' = "scan_send"
    /\ NoRead
    /\ UNCHANGED <<kernel, command, exit_msg, ioctls, generation, open_generation,
                   phyVars, reqVars, regs_read, busVars>>

\* the loop over the PHYs of the bus ends
ListAllEnd ==
    /\ command = "list_all_buses"
    /\ ScanReturned
    /\ ~(list_phy_id + 1 <= root_phy_id)
    /\ list_phy_id' = list_phy_id + 1
    /\ pc' = "list_done"
    /\ NoRead
    /\ UNCHANGED <<kernel, command, exit_msg, ioctls, generation, open_generation,
                   phyVars, reqVars, reg, regs_read, reg_values, reported,
                   replaced, busVars>>

ListPhy ==
    \/ ScanSend
    \/ ScanIoctlFail
    \/ ScanBegin
    \/ ScanTimeout
    \/ ScanShortRead
    \/ ScanBusReset
    \/ ScanSent
    \/ ScanReceived
    \/ ScanOtherEvent
    \/ ScanComplete
    \/ ListAllNext
    \/ ListAllEnd

(* ---------------------------- specification --------------------------- *)

Next ==
    \/ SendPacket
    \/ SendAsync
    \/ DoFcp
    \/ ListPhy

Spec == Init /\ [][Next]_vars

(* ------------------------- history operators -------------------------- *)

IsRequestIoctl(c) == c.op \in {"SEND_REQUEST", "SEND_BROADCAST_REQUEST"}

\* the requests and PHY packets submitted so far
Submissions ==
    SelectSeq(ioctls, LAMBDA c : IsRequestIoctl(c) \/ c.op = "SEND_PHY_PACKET")

\* the response events read so far
ResponsesRead == SelectSeq(evlog, LAMBDA e : e.type = EV_RESPONSE)

GenerationResponsesRead ==
    SelectSeq(evlog, LAMBDA e : e.type = EV_RESPONSE /\ e.rcode = RCODE_GENERATION)

\* positions in evlog of the bus reset events among the first n events
ResetsBefore(n) == {j \in 1..n : evlog[j].type = EV_BUS_RESET}

Max(S) == CHOOSE x \in S : \A y \in S : y <= x
Min(S) == CHOOSE x \in S : \A y \in S : x <= y

\* the generation announced last among the first n events read, or the one
\* read when the device was opened
AnnouncedGeneration(n) ==
    IF ResetsBefore(n) = {} THEN open_generation
    ELSE evlog[Max(ResetsBefore(n))].generation

SentRead == \E i \in 1..Len(evlog) : evlog[i].type = EV_PHY_PACKET_SENT

\* positions in evlog of the received PHY packets that satisfy the predicate
MatchingAt ==
    {i \in 1..Len(evlog) :
        /\ evlog[i].type = EV_PHY_PACKET_RECEIVED
        /\ And(evlog[i].data, response_mask) = response_bits}

IsSelfIdPattern(d) == 31 \in d /\ 30 \notin d

\* the response is complete at position i: a match that is no Self-ID
\* packet, or a Self-ID packet that ends its chain
CompletesResponse(i) ==
    /\ i \in MatchingAt
    /\ \/ ~IsSelfIdPattern(evlog[i].data)
       \/ 0 \notin evlog[i].data
       \/ Cardinality({j \in MatchingAt : j <= i}) >= SelfIdsSize

ResponseCompleted == \E i \in 1..Len(evlog) : CompletesResponse(i)

\* positions of the matching packets that are no Self-ID packets
FinalAt == {i \in MatchingAt : ~IsSelfIdPattern(evlog[i].data)}

(* ------------------- send_async on a bus that answers ----------------- *)

\* In Spec every read yields any event.  Here the events come from the bus:
\* kernel.queue holds the events put on the device file so far, in the
\* order in which read() returns them, and the program has read the first
\* nread of them.

RequestsSubmitted == SelectSeq(ioctls, IsRequestIoctl)

ResponsesQueued ==
    SelectSeq(kernel.queue, LAMBDA e : e.type = EV_RESPONSE)

\* a request the bus has not answered yet
Outstanding == Len(RequestsSubmitted) > Len(ResponsesQueued)

\* a bus reset whose event is not on the device file yet
AnnouncePending == kernel.announced < kernel.generation

\* the bus is reset: a new generation.  The resets are finitely many (up
\* to generation MaxGen), and a reset leaves room for the events it can
\* cause: two GENERATION responses, its bus reset event and the response
\* that ends the loop.
KernelBusReset ==
    /\ pc \in {"lock_check", "async_submit", "async_wait"}
    /\ kernel.generation < MaxGen
    /\ ~AnnouncePending
    /\ Len(kernel.queue) + 4 <= MaxEvents
    /\ kernel' = [kernel EXCEPT !.generation = @ + 1]
    /\ NoRead
    /\ UNCHANGED <<command, pc, exit_msg, ioctls, generation, open_generation,
                   phyVars, reqVars, scanVars>>

\* the bus reset event is put on the device file
KernelAnnounce ==
    /\ AnnouncePending
    /\ kernel' = [kernel EXCEPT
                    !.announced = @ + 1,
                    !.queue = Append(@, BusResetEv(kernel.announced + 1))]
    /\ NoRead
    /\ UNCHANGED <<command, pc, exit_msg, ioctls, generation, open_generation,
                   phyVars, reqVars, scanVars>>

\* the rcodes that answer a request stamped with generation g: GENERATION
\* exactly when g is not the generation of the bus
AnswerRcodes(g) ==
    IF g # kernel.generation THEN {RCODE_GENERATION}
    ELSE Rcodes \ {RCODE_GENERATION}

ResponseQueuedLast ==
    /\ kernel.queue # <<>>
    /\ kernel.queue[Len(kernel.queue)].type = EV_RESPONSE

\* the response to the outstanding request is put on the device file; at
\* most one response gets ahead of a bus reset event that is still to come
KernelAnswer ==
    /\ Outstanding
    /\ ~(AnnouncePending /\ ResponseQueuedLast)
    /\ \E rc \in AnswerRcodes(
                    RequestsSubmitted[Len(ResponsesQueued) + 1].generation) :
          kernel' = [kernel EXCEPT !.queue = Append(@, ResponseEv(rc)),
                                   !.answered = kernel.generation]
    /\ NoRead
    /\ UNCHANGED <<command, pc, exit_msg, ioctls, generation, open_generation,
                   phyVars, reqVars, scanVars>>

\* poll() reports an event when the device file holds an unread one, and
\* read() returns the oldest unread event
BusReadable == nread < Len(kernel.queue)

BusResponse ==
    /\ BusReadable
    /\ AsyncResponse
    /\ last_event' = kernel.queue[nread + 1]

BusBusReset ==
    /\ BusReadable
    /\ AsyncBusReset
    /\ last_event' = kernel.queue[nread + 1]

BusTimeout ==
    /\ ~BusReadable
    /\ AsyncTimeout

\* the steps the program takes on its own; a failing ioctl, a silent poll
\* and a short read may happen as well, but nothing makes them happen
SendAsyncStep ==
    \/ LockReject
    \/ LockAccept
    \/ AsyncSubmit
    \/ BusResponse
    \/ BusBusReset

SendAsyncOnBus ==
    \/ SendAsyncStep
    \/ AsyncIoctlFail
    \/ AsyncShortRead
    \/ BusTimeout
    \/ KernelBusReset
    \/ KernelAnnounce
    \/ KernelAnswer

BusInit ==
    /\ Init
    /\ command \in RequestCommands

\* the program runs whenever it can, every bus reset is announced and
\* every request is answered
BusSpec ==
    /\ BusInit
    /\ [][SendAsyncOnBus]_vars
    /\ WF_vars(SendAsyncStep)
    /\ WF_vars(KernelAnnounce)
    /\ WF_vars(KernelAnswer)

(* -------------------------------- C1 ---------------------------------- *)

\* C1: in the request loop of do_read, do_write_request and do_lock_request,
\* k responses with rcode GENERATION followed by a response with another
\* rcode r give exactly k + 1 submissions and the result r; while the loop
\* waits, every response read so far was GENERATION and one more request
\* than that has been submitted; a response with another rcode is the last
\* event of the run.
C1_GenerationRetry ==
    command \in RequestCommands =>
        /\ pc = "async_wait" =>
              /\ Len(ResponsesRead) = Len(GenerationResponsesRead)
              /\ Len(Submissions) = Len(GenerationResponsesRead) + 1
        /\ pc = "async_done" =>
              /\ Len(ResponsesRead) = Len(GenerationResponsesRead) + 1
              /\ evlog[Len(evlog)].type = EV_RESPONSE
              /\ evlog[Len(evlog)].rcode = final_rcode
              /\ final_rcode # RCODE_GENERATION
              /\ Len(Submissions) = Len(GenerationResponsesRead) + 1
        /\ Len(ResponsesRead) # Len(GenerationResponsesRead) => pc = "async_done"

C1_Witness ==
    /\ command = "do_read"
    /\ pc = "async_done"
    /\ Len(GenerationResponsesRead) = 2
    /\ Len(Submissions) = 3
    /\ final_rcode = RCODE_COMPLETE

(* -------------------------------- C2 ---------------------------------- *)

\* C2: every request of the request loop carries the generation of the
\* bus reset event read last before its submission, or the generation read
\* when the device was opened if no bus reset event was read before it.
C2_StampedGeneration ==
    command \in RequestCommands =>
        \A i \in 1..Len(ioctls) :
            IsRequestIoctl(ioctls[i]) =>
                ioctls[i].generation = AnnouncedGeneration(ioctls[i].at)

\* a resubmission after GENERATION that carries the generation of a bus
\* reset event read during the wait
C2_Witness ==
    /\ command \in RequestCommands
    /\ Len(Submissions) = 2
    /\ Len(GenerationResponsesRead) = 1
    /\ ResetsBefore(Len(evlog)) # {}
    /\ ioctls[Len(ioctls)].generation # open_generation
    /\ ioctls[Len(ioctls)].generation # ioctls[1].generation

(* -------------------------------- C3 ---------------------------------- *)

BusResetReadLast == last_event.type = EV_BUS_RESET

\* C3 as claimed: in every event loop a bus reset event that was read
\* sets the cached generation to the generation of the event.
C3_Original == BusResetReadLast => generation = last_event.generation

\* C3 as amended: the wait of the request loop sets the cached generation
\* to the generation of a bus reset event and keeps waiting; _send_packet,
\* do_fcp and list_phy end the run on a bus reset event and leave the
\* cached generation as it was read when the device was opened.
C3_BusResetGeneration ==
    [][(nread' = nread + 1 /\ last_event'.type = EV_BUS_RESET) =>
          IF command \in RequestCommands
          THEN generation' = last_event'.generation /\ pc' = "async_wait"
          ELSE generation' = generation /\ pc' = "exit"]_vars

C3_Witness ==
    /\ command \in RequestCommands
    /\ BusResetReadLast
    /\ last_event.generation # open_generation
    /\ pc = "async_wait"

(* -------------------------------- C4 ---------------------------------- *)

\* C4: _send_packet returns only after a sent event was read and, when a
\* response mask is given, after a response was completed by a matching
\* packet that is no Self-ID packet or by the end of a Self-ID chain;
\* without a mask nothing is awaited once the sent event was read.
C4_ReturnsAfterAllSignals ==
    command \in PhyCommands =>
        /\ pc = "phy_returned" =>
              /\ SentRead
              /\ response_mask # W(0) => ResponseCompleted
        /\ (pc = "phy_loop" /\ response_mask = W(0) /\ SentRead) =>
              (~wait_for_sent /\ ~wait_for_response)

\* the response is complete first and the sent event ends the wait
C4_Witness ==
    /\ pc = "phy_returned"
    /\ response_mask # W(0)
    /\ Len(evlog) >= 2
    /\ evlog[Len(evlog)].type = EV_PHY_PACKET_SENT
    /\ CompletesResponse(1)

(* -------------------------------- C5 ---------------------------------- *)

\* C5 as claimed: while _send_packet awaits a response the Self-ID chain
\* never holds more than three words, also when matching Self-ID packets
\* arrive after the chain has ended and before the sent event.
C5_ChainAtMostThree ==
    (command \in PhyCommands /\ response_mask # W(0)) =>
        (self_id_index <= SelfIdsSize /\ oob = 0)

(* -------------------------------- C6 ---------------------------------- *)

\* a step that reads a received PHY packet matching the predicate and
\* carrying the Self-ID pattern
SelfIdStep ==
    /\ pc = "phy_loop"
    /\ nread' = nread + 1
    /\ last_event'.type = EV_PHY_PACKET_RECEIVED
    /\ And(last_event'.data, response_mask) = response_bits
    /\ IsSelfIdPattern(last_event'.data)

\* C6: a matching word with the Self-ID pattern is stored at the end of
\* the chain, and an engine that is waiting for a response keeps waiting
\* exactly when bit 0 of the word is set and the chain then holds fewer
\* than three words.
C6_SelfIdChainStep ==
    [][SelfIdStep =>
          /\ self_id_index' = self_id_index + 1
          /\ response' = last_event'.data
          /\ self_id_index < SelfIdsSize =>
                self_ids' = [self_ids EXCEPT ![self_id_index] = last_event'.data]
          /\ wait_for_response =>
                (wait_for_response' <=>
                    (0 \in last_event'.data /\ self_id_index' < SelfIdsSize))]_vars

\* two words with the continuation bit were chained and the engine waits
\* for the third
C6_Witness ==
    /\ pc = "phy_loop"
    /\ self_id_index = 2
    /\ wait_for_response
    /\ 0 \in self_ids[1]

(* -------------------------------- C7 ---------------------------------- *)

\* C7 as claimed: once a matching word that is no Self-ID packet was
\* accepted as the response, the response is that word, whatever is read
\* afterwards, and it is the word _send_packet returns.
C7_FirstAcceptedIsFinal ==
    (command \in PhyCommands /\ response_mask # W(0) /\ FinalAt # {}) =>
        /\ response = evlog[Min(FinalAt)].data
        /\ pc = "phy_returned" => retval = evlog[Min(FinalAt)].data

(* -------------------------------- C8 ---------------------------------- *)

\* C8 as claimed: without a response mask _send_packet returns 0.
C8_NoMaskReturnsZero ==
    (command \in PhyCommands /\ response_mask = W(0) /\ pc = "phy_returned") =>
        retval = W(0)

(* -------------------------------- C9 ---------------------------------- *)

TimeoutTaken == exit_msg \in {"timeout", "timeout (no ack)"}

\* C9: in _send_packet and in wait_for_response a poll that yields no
\* event ends the run: no value is returned, no rcode is reported, and no
\* packet or request is submitted afterwards.
C9_TimeoutIsFatal ==
    /\ [](command \in PhyCommands \cup RequestCommands /\ TimeoutTaken =>
             /\ pc = "exit"
             /\ final_rcode = ""
             /\ retval = W(0))
    /\ [][(command \in PhyCommands \cup RequestCommands /\ TimeoutTaken) =>
             (ioctls' = ioctls /\ pc' = pc)]_vars

\* the request loop had resubmitted once before the silent poll
C9_Witness ==
    /\ command \in RequestCommands
    /\ TimeoutTaken
    /\ pc = "exit"
    /\ Len(Submissions) = 2

(* -------------------------------- C10 --------------------------------- *)

\* C10: in _send_packet, do_fcp and list_phy a bus reset event ends the
\* run whatever was collected before: nothing is returned or printed and
\* nothing is submitted afterwards.
C10_BusResetIsFatal ==
    /\ [](command \notin RequestCommands /\ BusResetReadLast =>
             /\ pc = "exit"
             /\ exit_msg = "bus reset"
             /\ retval = W(0)
             /\ final_rcode = ""
             /\ reported = <<>>)
    /\ [][(command \notin RequestCommands /\ BusResetReadLast) =>
             (ioctls' = ioctls /\ pc' = pc)]_vars

\* the sent event and a first Self-ID word were already collected
C10_Witness ==
    /\ command = "command_ping"
    /\ BusResetReadLast
    /\ ~wait_for_sent
    /\ self_id_index = 1
    /\ pc = "exit"

(* -------------------------------- C11 --------------------------------- *)

\* a response event with rcode COMPLETE was read: the ack of the write
AckRead ==
    \E i \in 1..Len(evlog) :
        evlog[i].type = EV_RESPONSE /\ evlog[i].rcode = RCODE_COMPLETE

\* positions in evlog of the inbound requests
RequestsAt == {i \in 1..Len(evlog) : evlog[i].type = EV_REQUEST}

\* C11 as claimed: do_fcp returns without a failure only after it has read
\* both the COMPLETE ack of its command write and an inbound request that
\* carries the reply of the device, in whichever order they arrive.
C11_BothAckAndReply ==
    (command = "do_fcp" /\ pc = "fcp_done" /\ final_rcode = "") =>
        (AckRead /\ RequestsAt # {})

(* -------------------------------- C12 --------------------------------- *)

\* positions in ioctls of the answers issued after exactly i events were read
AnswersTo(i) ==
    {j \in 1..Len(ioctls) :
        ioctls[j].op = "SEND_RESPONSE" /\ ioctls[j].at = i}

RequestsRead == SelectSeq(evlog, LAMBDA e : e.type = EV_REQUEST)

\* C12: every inbound request do_fcp reads is answered, before another
\* event is read, by exactly one SEND_RESPONSE with the handle of the
\* request and rcode COMPLETE, and its payload is printed; the one
\* exception is a SEND_RESPONSE ioctl that fails, which ends the run at
\* that request.  No answer is issued for any other event.
C12_RequestAnswered ==
    command = "do_fcp" =>
        /\ \A i \in RequestsAt :
              \/ /\ Cardinality(AnswersTo(i)) = 1
                 /\ \A j \in AnswersTo(i) :
                       /\ ioctls[j].handle = evlog[i].handle
                       /\ ioctls[j].rcode = RCODE_COMPLETE
              \/ /\ i = Len(evlog)
                 /\ AnswersTo(i) = {}
                 /\ pc = "exit"
                 /\ exit_msg = "SEND_RESPONSE ioctl failed"
        /\ \A j \in 1..Len(ioctls) :
              ioctls[j].op = "SEND_RESPONSE" => ioctls[j].at \in RequestsAt
        /\ Len(printed) <= Len(RequestsRead)
        /\ Len(printed) >= Len(RequestsRead) - 1
        /\ Len(printed) < Len(RequestsRead) => pc = "exit"
        /\ \A k \in 1..Len(printed) : printed[k] = RequestsRead[k].data

\* two requests with different handles were answered in turn
C12_Witness ==
    /\ command = "do_fcp"
    /\ Len(printed) = 2
    /\ Len(RequestsRead) = 2
    /\ RequestsRead[1].handle # RequestsRead[2].handle
    /\ pc = "fcp_loop"

(* -------------------------------- C13 --------------------------------- *)

\* C13: do_fcp submits its command write once and never again: the write
\* is in flight whenever the loop runs or has returned, a response with
\* any rcode but COMPLETE (GENERATION included) is printed and ends the
\* exchange as the last event read, and a silent poll ends the run.
C13_SingleSubmission ==
    command = "do_fcp" =>
        /\ Len(Submissions) <= 1
        /\ pc \in {"fcp_loop", "fcp_done"} => Len(Submissions) = 1
        /\ \A i \in 1..Len(evlog) :
              (evlog[i].type = EV_RESPONSE /\ evlog[i].rcode # RCODE_COMPLETE) =>
                  /\ i = Len(evlog)
                  /\ pc = "fcp_done"
                  /\ final_rcode = evlog[i].rcode
        /\ exit_msg \in {"timeout (no ack)", "timeout (no response)"} =>
              pc = "exit"

\* the ack said the generation was stale
C13_Witness ==
    /\ command = "do_fcp"
    /\ pc = "fcp_done"
    /\ final_rcode = RCODE_GENERATION
    /\ Len(Submissions) = 1

(* -------------------------------- C14 --------------------------------- *)

\* the number in the bits lo .. lo + width - 1 of a word
Field(d, lo, width) ==
    ValueOf({b - lo : b \in {x \in d : x >= lo /\ x < lo + width}})

\* a paged remote reply of phy id for page 1 and port 0
IsKeyedReply(d, id) ==
    /\ Field(d, 30, 2) = 0
    /\ Field(d, 24, 6) = id
    /\ Field(d, 18, 6) = 7
    /\ Field(d, 15, 3) = 1
    /\ Field(d, 11, 4) = 0

\* a step of the scan loop that reads a received PHY packet
ScanReceiveStep ==
    /\ command \in ScanCommands
    /\ pc = "scan_loop"
    /\ nread' = nread + 1
    /\ last_event'.type = EV_PHY_PACKET_RECEIVED

\* a step that reads a reply for one of the registers 2..7
ScanReplyStep ==
    /\ ScanReceiveStep
    /\ last_event'.length = 8
    /\ IsKeyedReply(last_event'.data, list_phy_id)
    /\ Field(last_event'.data, 8, 3) \in ScanRegs

\* C14: every reply for a register r of 2..7 stores its data byte as the
\* value of r and marks r as read, whatever was read before; once all six
\* registers are marked the scan reports the six stored bytes, in the order
\* of the registers; a silent poll before that ends the scan with a
\* timeout and nothing is reported.
C14_ScanCompletes ==
    /\ [](command \in ScanCommands =>
             /\ pc = "scan_done" =>
                   /\ \A r \in ScanRegs : r \in regs_read
                   /\ \A r \in ScanRegs :
                         reported[r - 1] = reg_values[r]
                         /\ reg_values[r] # Unwritten
             /\ pc = "scan_timeout" =>
                   /\ reported = <<>>
                   /\ \E r \in ScanRegs : r \notin regs_read
                   /\ scan_log[Len(scan_log)].timeout
                   /\ scan_log[Len(scan_log)].values = <<>>)
    /\ [][ScanReplyStep =>
             LET r == Field(last_event'.data, 8, 3) IN
             /\ reg_values' =
                   [reg_values EXCEPT ![r] = Field(last_event'.data, 0, 8)]
             /\ regs_read' = regs_read \cup {r}
             /\ pc' = pc]_vars
    /\ [][(command \in ScanCommands /\ pc = "scan_loop"
           /\ \A r \in ScanRegs : r \in regs_read) =>
             (pc' = "scan_done" /\ nread' = nread)]_vars

\* six replies and one more event were read before the values were printed
C14_Witness ==
    /\ command = "list_phy"
    /\ pc = "scan_done"
    /\ nread = 7
    /\ reported = <<18, 19, 20, 21, 22, 23>>

(* -------------------------------- C15 --------------------------------- *)

\* C15 as claimed: a received PHY packet that is no paged remote reply of
\* the scanned phy for page 1 and port 0 changes neither the registers
\* marked as read nor any register value.
C15_OnlyKeyedReplies ==
    [][(ScanReceiveStep /\ ~IsKeyedReply(last_event'.data, list_phy_id)) =>
          (regs_read' = regs_read /\ reg_values' = reg_values)]_vars

(* -------------------------------- C16 --------------------------------- *)

\* the six packets for phy id were handed to the kernel
ScanAttempted(id) ==
    \A r \in ScanRegs :
        \E i \in 1..Len(ioctls) :
            /\ ioctls[i].op = "SEND_PHY_PACKET"
            /\ Field(ioctls[i].d0, 24, 6) = id
            /\ Field(ioctls[i].d0, 8, 3) = r

\* C16: in list_all_buses a silent poll ends the scan of one PHY only: the
\* run does not exit, the loop goes on to the next phy id up to that of the
\* root, and a run that reaches the end of the loop has sent the packets
\* of every phy id and has logged an outcome for each.
C16_TimeoutIsolated ==
    /\ [](command = "list_all_buses" =>
             /\ exit_msg # "timeout"
             /\ pc = "scan_timeout" => exit_msg = ""
             /\ pc = "list_done" =>
                   /\ Len(scan_log) = root_phy_id + 1
                   /\ \A id \in 0..root_phy_id :
                         ScanAttempted(id) /\ scan_log[id + 1].phy_id = id)
    /\ [][(command = "list_all_buses" /\ pc = "scan_timeout") =>
             IF list_phy_id < root_phy_id
             THEN pc' = "scan_send" /\ list_phy_id' = list_phy_id + 1
             ELSE pc' = "list_done"]_vars

\* the first PHY did not answer, and events were read from later ones
C16_Witness ==
    /\ command = "list_all_buses"
    /\ pc = "list_done"
    /\ scan_log[1].timeout
    /\ nread = 2
    /\ \A id \in 0..root_phy_id : ScanAttempted(id)

(* -------------------------------- C17 --------------------------------- *)

\* an event that completes an outbound transaction
Completes(e) == e.type \in {EV_RESPONSE, EV_PHY_PACKET_SENT}

\* completions read so far; the scan keeps no log of its events, where
\* every event read is counted as one
CompletionsRead ==
    IF command \in ScanCommands THEN nread
    ELSE Len(SelectSeq(evlog, Completes))

\* C17 as claimed: in every command at most one outbound transaction is
\* outstanding: no packet or request is submitted before the one before it
\* was completed.
C17_Original == Len(Submissions) - CompletionsRead <= 1

\* C17 as amended: in _send_packet, the request loop and do_fcp a
\* completion event is read between any two submissions; list_phy hands
\* all six packets of a PHY to the kernel before it reads any event, so
\* that six transactions are outstanding when its loop starts.
C17_OneOutstanding ==
    /\ command \notin ScanCommands =>
          \A i \in 2..Len(Submissions) :
              \E j \in (Submissions[i - 1].at + 1)..Submissions[i].at :
                  Completes(evlog[j])
    /\ (command \in ScanCommands /\ pc = "scan_loop") =>
          /\ Len(Submissions) >= 6
          /\ \A i \in (Len(Submissions) - 5)..Len(Submissions) :
                /\ Submissions[i].at = Submissions[Len(Submissions)].at
                /\ Field(Submissions[i].d0, 24, 6) = list_phy_id

\* the scan loop starts with six packets in flight
C17_Witness ==
    /\ command = "list_phy"
    /\ pc = "scan_loop"
    /\ nread = 0
    /\ Len(Submissions) = 6

(* -------------------------------- C18 --------------------------------- *)

\* d1 is the bitwise complement of d0 on 32 bits
IsComplement(d0, d1) ==
    /\ d1 \subseteq BitPos
    /\ \A b \in BitPos : (b \in d1) <=> (b \notin d0)

\* C18: every PHY packet that send_packet and list_phy submit has the
\* complement of its first quadlet as its second quadlet; the packet of
\* command_versaphy carries the two quadlets of the command line as they
\* were given.
C18_SecondQuadlet ==
    \A i \in 1..Len(ioctls) :
        ioctls[i].op = "SEND_PHY_PACKET" =>
            IF command = "command_versaphy"
            THEN /\ ioctls[i].d0 = VersaQ0
                 /\ ioctls[i].d1 = VersaQ1
                 /\ ~IsComplement(ioctls[i].d0, ioctls[i].d1)
            ELSE IsComplement(ioctls[i].d0, ioctls[i].d1)

\* a ping packet was submitted: one bit in the first quadlet, the other
\* thirty-one in the second
C18_Witness ==
    /\ command = "command_ping"
    /\ Len(Submissions) = 1
    /\ Cardinality(Submissions[1].d0) = 1
    /\ Cardinality(Submissions[1].d1) = 31

(* -------------------------------- C19 --------------------------------- *)

\* the lock tcode of each kind of lock
KindTcode(cmd) ==
    CASE cmd = "do_mask_swap" -> "TCODE_LOCK_MASK_SWAP"
      [] cmd = "do_compare_swap" -> "TCODE_LOCK_COMPARE_SWAP"
      [] cmd = "do_bounded_add" -> "TCODE_LOCK_BOUNDED_ADD"
      [] cmd = "do_wrap_add" -> "TCODE_LOCK_WRAP_ADD"
      [] cmd = "do_add_big" -> "TCODE_LOCK_FETCH_ADD"
      [] cmd = "do_add_little" -> "TCODE_LOCK_LITTLE_ADD"

\* C19: every lock request carries the tcode of its kind; with two
\* operands of the same width w of 4 or 8 bytes its payload is the first
\* operand followed by the second and its length is 2 * w; the kinds with
\* one operand carry that operand alone with length w.
C19_LockPayload ==
    command \in LockCommands =>
        \A i \in 1..Len(ioctls) :
            LET c == ioctls[i] IN
            /\ IsRequestIoctl(c)
            /\ c.tcode = KindTcode(command)
            /\ Len(data) \in {4, 8}
            /\ IF command \in DualLockCommands
               THEN /\ Len(data2) = Len(data)
                    /\ c.length = 2 * Len(data)
                    /\ Len(c.data) = c.length
                    /\ SubSeq(c.data, 1, Len(data)) = data
                    /\ SubSeq(c.data, Len(data) + 1, 2 * Len(data)) = data2
               ELSE /\ c.length = Len(data)
                    /\ c.data = data

\* a mask swap on 64 bits: sixteen bytes of payload
C19_Witness ==
    /\ command = "do_mask_swap"
    /\ Len(Submissions) = 1
    /\ Submissions[1].length = 16
    /\ Submissions[1].data = data \o data2
    /\ data # data2

(* -------------------------------- C20 --------------------------------- *)

\* the data blocks do not make the operands of the lock
InvalidOperands ==
    \/ Len(data) \notin {4, 8}
    \/ /\ command \in DualLockCommands
       /\ (Len(data2) \notin {4, 8} \/ Len(data2) # Len(data))

\* C20: a lock command whose first data block is not 4 or 8 bytes long,
\* or which takes two blocks and whose second block is not 4 or 8 bytes
\* long or differs in length from the first, ends with an error message
\* and issues no ioctl at all.
C20_RejectedBeforeSubmit ==
    (command \in LockCommands /\ InvalidOperands) =>
        /\ ioctls = <<>>
        /\ nread = 0
        /\ pc \in {"lock_check", "exit"}
        /\ pc = "exit" =>
              exit_msg \in {"data size must be 32 or 64 bits",
                            "both data blocks must have the same size"}

\* two valid widths that differ
C20_Witness ==
    /\ command = "do_compare_swap"
    /\ Len(data) = 8
    /\ Len(data2) = 4
    /\ pc = "exit"
    /\ exit_msg = "both data blocks must have the same size"

(* -------------------------------- C21 --------------------------------- *)

\* C21: every request of do_read and do_write_request carries the quadlet
\* tcode exactly when its length is 4 and its offset is a multiple of 4,
\* and the block tcode otherwise; every resubmission carries the same.
C21_TcodeByLengthAndAlignment ==
    command \in {"do_read"} \cup WriteCommands =>
        \A i \in 1..Len(ioctls) :
            LET len == IF command = "do_read" THEN read_length ELSE Len(data)
                quad == len = 4 /\ address % 4 = 0
                kind == IF command = "do_read" THEN "READ" ELSE "WRITE"
            IN  /\ ioctls[i].length = len
                /\ quad => ioctls[i].tcode = "TCODE_" \o kind \o "_QUADLET_REQUEST"
                /\ ~quad => ioctls[i].tcode = "TCODE_" \o kind \o "_BLOCK_REQUEST"
                /\ ioctls[i].tcode = ioctls[1].tcode

\* four bytes written to an offset that is not aligned, submitted twice
C21_Witness ==
    /\ command = "do_write"
    /\ address = 3
    /\ Len(data) = 4
    /\ Len(Submissions) = 2
    /\ Submissions[2].tcode = "TCODE_WRITE_BLOCK_REQUEST"

(* -------------------------------- C22 --------------------------------- *)

\* C22: in _send_packet, wait_for_response, do_fcp and list_phy a read of
\* 0 up to HeaderSize - 1 bytes is taken for a short read, and a short read
\* ends the run in the step that finds it: the buffer is not taken for an
\* event, no state of the transaction changes, nothing is returned,
\* reported or submitted.
C22_ShortReadFatal ==
    /\ [](\A r \in 0..(HeaderSize - 1) : IsShortRead(r))
    /\ [](exit_msg = "short read" =>
             /\ pc = "exit"
             /\ retval = W(0)
             /\ final_rcode = ""
             /\ reported = <<>>)
    /\ [][(exit_msg' = "short read" /\ exit_msg # "short read") =>
             /\ pc \in {"phy_loop", "async_wait", "fcp_loop", "scan_loop"}
             /\ UNCHANGED <<nread, last_event, evlog, ioctls, generation,
                            phyVars, reqVars, scanVars>>]_vars

\* the exchange had printed a reply when the short read came
C22_Witness ==
    /\ command = "do_fcp"
    /\ exit_msg = "short read"
    /\ pc = "exit"
    /\ Len(printed) = 1

(* -------------------------------- C23 --------------------------------- *)

\* words of the chain up to and including the first whose bit 0 is clear,
\* and three at most
WordsConsumed ==
    IF 0 \notin self_ids[0] THEN 1
    ELSE IF 0 \notin self_ids[1] THEN 2
    ELSE 3

\* position in evlog of the matching packet that k others precede
NthMatching(k) ==
    CHOOSE i \in MatchingAt : Cardinality({j \in MatchingAt : j < i}) = k

\* the port fields printed for the word at index k of the chain
PortsPrintedFor(k) ==
    IF k = 0 THEN SubSeq(ports, 1, 3)
    ELSE SubSeq(ports, 8 * k - 4, 8 * k + 3)

\* the port fields of a word, as many as are printed from that place
PortFieldsOf(word, k) ==
    IF k = 0 THEN <<Field(word, 6, 2), Field(word, 4, 2), Field(word, 2, 2)>>
    ELSE [n \in 1..8 |-> Field(word, 18 - 2 * n, 2)]

\* C23: command_ping prints from the words of the chain in the order they
\* were received, up to and including the first whose bit 0 is clear and
\* from three words at most; what it prints is made of these words alone.
C23_DecoderConsumes ==
    (command = "command_ping" /\ pc = "ping_printed") =>
        /\ WordsConsumed <= SelfIdsSize
        /\ WordsConsumed <= Cardinality(MatchingAt)
        /\ Len(ports) = 3 + 8 * (WordsConsumed - 1)
        /\ \A k \in 0..(WordsConsumed - 1) :
              /\ self_ids[k] = evlog[NthMatching(k)].data
              /\ PortsPrintedFor(k) = PortFieldsOf(evlog[NthMatching(k)].data, k)
              /\ k < WordsConsumed - 1 => 0 \in evlog[NthMatching(k)].data
        /\ WordsConsumed < SelfIdsSize =>
              0 \notin evlog[NthMatching(WordsConsumed - 1)].data

\* continuation bits 1, 1, 0: three words
C23_Witness ==
    /\ command = "command_ping"
    /\ pc = "ping_printed"
    /\ 0 \in self_ids[0]
    /\ 0 \in self_ids[1]
    /\ 0 \notin self_ids[2]
    /\ self_id_index = 3
    /\ Len(ports) = 19

(* -------------------------------- C24 --------------------------------- *)

ReceptionEnabledAt ==
    {i \in 1..Len(ioctls) : ioctls[i].op = "RECEIVE_PHY_PACKETS"}

\* C24: with a response mask _send_packet asks for received PHY packets
\* once, before it submits the packet; without a mask it never asks.
C24_ListenBeforeSend ==
    command \in PhyCommands =>
        IF response_mask # W(0)
        THEN /\ Cardinality(ReceptionEnabledAt) <= 1
             /\ \A i \in 1..Len(ioctls) :
                   ioctls[i].op = "SEND_PHY_PACKET" =>
                       \E j \in ReceptionEnabledAt : j < i
        ELSE ReceptionEnabledAt = {}

\* the read command has enabled reception and then sent its packet
C24_Witness ==
    /\ command = "command_read"
    /\ Len(ioctls) = 2
    /\ ioctls[1].op = "RECEIVE_PHY_PACKETS"
    /\ ioctls[2].op = "SEND_PHY_PACKET"

(* -------------------------------- C25 --------------------------------- *)

\* C25: a received PHY packet whose data does not satisfy the predicate
\* changes nothing in _send_packet: the response, the chain and its
\* length, both flags and the ping time stay, and the loop goes on.
C25_NonMatchingIgnored ==
    [][(/\ command \in PhyCommands
        /\ pc = "phy_loop"
        /\ nread' = nread + 1
        /\ last_event'.type = EV_PHY_PACKET_RECEIVED
        /\ (last_event'.data \cap response_mask) # response_bits) =>
          (/\ pc' = "phy_loop"
           /\ UNCHANGED <<response, self_ids, self_id_index, wait_for_sent,
                          wait_for_response, ping_time, oob, retval, ioctls,
                          exit_msg>>)]_vars

\* the Self-ID packet of another phy was read in the middle of a chain
C25_Witness ==
    /\ command = "command_ping"
    /\ pc = "phy_loop"
    /\ last_event.type = EV_PHY_PACKET_RECEIVED
    /\ (last_event.data \cap response_mask) # response_bits
    /\ self_id_index = 1
    /\ wait_for_response

(* -------------------------------- C26 --------------------------------- *)

\* C26: every sent event read by _send_packet clears wait_for_sent and,
\* when it carries a time stamp (length >= 4), sets ping_time to it;
\* without one ping_time stays; wait_for_sent is never set again.
C26_SentClearsAndRecords ==
    /\ [][(/\ command \in PhyCommands
           /\ pc = "phy_loop"
           /\ nread' = nread + 1
           /\ last_event'.type = EV_PHY_PACKET_SENT) =>
             (/\ ~wait_for_sent'
              /\ last_event'.length >= 4 => ping_time' = last_event'.data
              /\ last_event'.length < 4 => ping_time' = ping_time
              /\ pc' = "phy_loop")]_vars
    /\ [][(command \in PhyCommands /\ ~wait_for_sent) => ~wait_for_sent']_vars

\* the sent event came first and the response is still awaited
C26_Witness ==
    /\ command = "command_ping"
    /\ pc = "phy_loop"
    /\ last_event.type = EV_PHY_PACKET_SENT
    /\ last_event.length = 4
    /\ ping_time = last_event.data
    /\ ping_time # W(0)
    /\ ~wait_for_sent
    /\ wait_for_response

(* -------------------------------- C27 --------------------------------- *)

\* C27: while wait_for_response waits, an event that is no response is
\* passed over: nothing is submitted or answered and the wait goes on; a
\* bus reset event sets the cached generation to its own and changes
\* nothing else, any other event leaves the generation as it is.
C27_WaitIgnoresOthers ==
    [][(/\ command \in RequestCommands
        /\ pc = "async_wait"
        /\ nread' = nread + 1
        /\ last_event'.type # EV_RESPONSE) =>
          (/\ pc' = "async_wait"
           /\ UNCHANGED <<ioctls, exit_msg, reqVars>>
           /\ generation' = IF last_event'.type = EV_BUS_RESET
                            THEN last_event'.generation ELSE generation)]_vars

\* an inbound request was read after a bus reset had changed the generation
C27_Witness ==
    /\ command \in RequestCommands
    /\ pc = "async_wait"
    /\ last_event.type = EV_REQUEST
    /\ generation # open_generation
    /\ Len(ioctls) = 1

(* -------------------------------- C28 --------------------------------- *)

\* C28: regs_read holds bits 2..7 only; a reply for register 0 or 1 sets
\* no bit and stores no value; while the loop of one scan runs no bit is
\* cleared; the scan has printed its values only with regs_read = 0xfc,
\* and has timed out only with another value.
C28_CompletionMask ==
    /\ [](command \in ScanCommands =>
             /\ regs_read \subseteq ScanRegs
             /\ pc = "scan_done" => ValueOf(regs_read) = 252
             /\ pc = "scan_timeout" => ValueOf(regs_read) # 252)
    /\ [][(command \in ScanCommands /\ pc = "scan_loop") =>
             regs_read \subseteq regs_read']_vars
    /\ [][(ScanReceiveStep /\ Field(last_event'.data, 8, 3) < 2) =>
             (regs_read' = regs_read /\ reg_values' = reg_values)]_vars

\* a reply for register 1 was read after one for a wanted register
C28_Witness ==
    /\ command = "list_phy"
    /\ pc = "scan_loop"
    /\ last_event.type = EV_PHY_PACKET_RECEIVED
    /\ last_event.length = 8
    /\ IsKeyedReply(last_event.data, list_phy_id)
    /\ Field(last_event.data, 8, 3) = 1
    /\ regs_read = {2}

(* -------------------------------- C29 --------------------------------- *)

\* C29: do_fcp allocates the response range before it submits the command
\* write: the ALLOCATE ioctl is the first one issued, and a run whose
\* ALLOCATE ioctl fails ends without any submission.
C29_AllocateFirst ==
    command = "do_fcp" =>
        /\ \A i \in 1..Len(ioctls) :
              IsRequestIoctl(ioctls[i]) =>
                  \E j \in 1..(i - 1) : ioctls[j].op = "ALLOCATE"
        /\ pc \in {"fcp_send", "fcp_loop", "fcp_done"} =>
              (Len(ioctls) >= 1 /\ ioctls[1].op = "ALLOCATE")
        /\ exit_msg = "ALLOCATE ioctl failed" => (ioctls = <<>> /\ pc = "exit")

\* the range was allocated and the command written
C29_Witness ==
    /\ command = "do_fcp"
    /\ pc = "fcp_loop"
    /\ Len(ioctls) = 2
    /\ ioctls[1].op = "ALLOCATE"
    /\ IsRequestIoctl(ioctls[2])

(* -------------------------------- C30 --------------------------------- *)

\* C30 as claimed: command_ping prints four port fields for each word of
\* the chain it consumes.
C30_Original ==
    (command = "command_ping" /\ pc = "ping_printed") =>
        Len(ports) = 4 * WordsConsumed

\* C30 as amended: command_ping prints three port fields of the first
\* word, the bit pairs at 6, 4 and 2, and eight of every further word it
\* consumes, the bit pairs at 16, 14, 12, 10, 8, 6, 4 and 2, each word from
\* its most significant pair downwards.
C30_PortFields ==
    (command = "command_ping" /\ pc = "ping_printed") =>
        /\ Len(ports) = 3 + 8 * (WordsConsumed - 1)
        /\ \A n \in 1..3 : ports[n] = Field(self_ids[0], 8 - 2 * n, 2)
        /\ \A k \in 1..(WordsConsumed - 1) :
              \A n \in 1..8 :
                  ports[3 + 8 * (k - 1) + n] = Field(self_ids[k], 18 - 2 * n, 2)

\* a chain of two words: three fields and eight
C30_Witness ==
    /\ command = "command_ping"
    /\ pc = "ping_printed"
    /\ WordsConsumed = 2
    /\ ports = <<1, 2, 3, 2, 1, 3, 1, 0, 3, 1, 2>>

(* -------------------------------- C31 --------------------------------- *)

\* send_async has returned: the loop ended with a response whose rcode is
\* not GENERATION, to a request stamped with the generation the bus had
\* when it answered
AsyncReturned ==
    /\ pc = "async_done"
    /\ final_rcode \in Rcodes \ {RCODE_GENERATION}
    /\ RequestsSubmitted # <<>>
    /\ RequestsSubmitted[Len(RequestsSubmitted)].generation = kernel.answered

\* positions in evlog of the GENERATION responses read before any bus reset
\* event was read
GenerationReadFirst ==
    {i \in 1..Len(evlog) :
        /\ evlog[i].type = EV_RESPONSE
        /\ evlog[i].rcode = RCODE_GENERATION
        /\ ResetsBefore(i) = {}}

\* C31: on a bus that resets finitely often, announces every reset and
\* answers every request (with GENERATION exactly when the request is
\* stamped with another generation than the bus has), send_async does not
\* resubmit forever: unless it takes an exit, it eventually returns with a
\* rcode other than GENERATION, for a request stamped with the generation
\* of the bus, also when it reads the GENERATION response before the bus
\* reset event; and it returns in no other way.
C31_SendAsyncReturns ==
    /\ <>(AsyncReturned \/ pc = "exit")
    /\ [](pc = "async_done" => AsyncReturned)

\* send_async returned although it read a GENERATION response before the
\* bus reset event that announced the new generation
C31_Witness ==
    /\ AsyncReturned
    /\ GenerationReadFirst # {}
    /\ \E j \in 1..Len(evlog) :
          /\ evlog[j].type = EV_BUS_RESET
          /\ evlog[j].generation = kernel.generation
          /\ \E i \in GenerationReadFirst : i < j

(* -------------------------------- C32 --------------------------------- *)

\* a received PHY packet that passes the reply test of the scan of phy id:
\* eight bytes, a remote reply of that phy for page 1
IsScanReply(e, id) ==
    /\ e.type = EV_PHY_PACKET_RECEIVED
    /\ e.length = 8
    /\ Field(e.data, 30, 2) = 0
    /\ Field(e.data, 24, 6) = id
    /\ Field(e.data, 18, 6) = 7
    /\ Field(e.data, 15, 3) = 1

\* the step reads a reply of the scanned phy for register r and stores its
\* data byte as the value of r
ScanStoreStep(r) ==
    /\ ScanReceiveStep
    /\ IsScanReply(last_event', list_phy_id)
    /\ Field(last_event'.data, 8, 3) = r
    /\ reg_values'[r] = Field(last_event'.data, 0, 8)
    /\ r \in regs_read'

\* C32: every call of the scan starts its loop with an empty completion
\* mask; a bit r of the mask is set, and the value of register r changes
\* while the loop runs, only in a step that stores the data byte of a reply
\* of the scanned phy for register r; so every register marked in the mask
\* holds a byte written in this call, and a scan that completes reports six
\* such bytes, none unwritten and none left by an earlier call.
C32_ReportedWritten ==
    /\ [](command \in ScanCommands =>
             /\ pc = "scan_loop" =>
                   \A r \in regs_read : reg_values[r] \in 0..255
             /\ pc = "scan_done" =>
                   /\ regs_read = ScanRegs
                   /\ \A r \in ScanRegs :
                         reported[r - 1] = reg_values[r]
                         /\ reg_values[r] \in 0..255)
    /\ [][(command \in ScanCommands /\ pc = "scan_send"
           /\ pc' = "scan_loop") => regs_read' = {}]_vars
    /\ [][\A r \in ScanRegs :
             (\/ r \notin regs_read /\ r \in regs_read'
              \/ pc = "scan_loop" /\ reg_values'[r] # reg_values[r])
             => ScanStoreStep(r)]_vars

\* a scan completed after exactly one reply for each register
C32_Witness ==
    /\ command = "list_phy"
    /\ pc = "scan_done"
    /\ nread = 6
    /\ regs_read = ScanRegs
    /\ reported = <<34, 19, 20, 21, 22, 23>>

(* -------------------------------- C33 --------------------------------- *)

\* the step reads a reply of the scanned phy for register r
ScanReplyFor(r) ==
    /\ ScanReceiveStep
    /\ IsScanReply(last_event', list_phy_id)
    /\ Field(last_event'.data, 8, 3) = r

\* C33: a reply for a register that is marked already leaves the
\* completion mask as it is and replaces the stored byte of that register,
\* and of no other, with its own data byte; no other step of the loop
\* changes the value of a register, and the completed scan reports the
\* values as they stand, so the value reported for a register is that of
\* the last reply read for it.
C33_LastReplyWins ==
    /\ [][\A r \in ScanRegs :
             (ScanReplyFor(r) /\ r \in regs_read) =>
                /\ regs_read' = regs_read
                /\ reg_values' =
                      [reg_values EXCEPT ![r] = Field(last_event'.data, 0, 8)]
                /\ pc' = pc]_vars
    /\ [][\A r \in ScanRegs :
             (command \in ScanCommands /\ pc = "scan_loop"
              /\ ~ScanReplyFor(r)) => reg_values'[r] = reg_values[r]]_vars
    /\ [](command \in ScanCommands /\ pc = "scan_done" =>
             \A r \in ScanRegs : reported[r - 1] = reg_values[r])

\* two replies for register 2 were read, the second one with the byte 0x22
C33_Witness ==
    /\ command = "list_phy"
    /\ pc = "scan_loop"
    /\ nread = 2
    /\ replaced
    /\ regs_read = {2}
    /\ last_event.length = 8
    /\ last_event.data = PHY_REMOTE_REPLY_PAGED(list_phy_id, 1, 0, 2, 34)
    /\ reg_values[2] = 34

(* -------------------------------- C34 --------------------------------- *)

\* a step of the scan loop that reads a sent event
ScanSentStep ==
    /\ command \in ScanCommands
    /\ pc = "scan_loop"
    /\ nread' = nread + 1
    /\ last_event'.type = EV_PHY_PACKET_SENT

\* C34: in the scan a sent event with another rcode than COMPLETE ends the
\* run at once: the program exits, no step follows, and neither values nor
\* an outcome are written for the phy that was being scanned; a sent event
\* with the rcode COMPLETE leaves the loop running and changes neither the
\* completion mask nor a register value.
C34_SentInScan ==
    /\ [][ScanSentStep =>
             IF last_event'.rcode # RCODE_COMPLETE
             THEN /\ pc' = "exit"
                  /\ exit_msg' = "PHY packet failed"
                  /\ reported' = <<>>
                  /\ scan_log' = scan_log
             ELSE /\ pc' = pc
                  /\ exit_msg' = exit_msg
                  /\ regs_read' = regs_read
                  /\ reg_values' = reg_values
                  /\ reported' = reported]_vars
    /\ [](exit_msg = "PHY packet failed" =>
             /\ pc = "exit"
             /\ reported = <<>>
             /\ \A i \in 1..Len(scan_log) : scan_log[i].phy_id # list_phy_id)
    /\ [][pc # "exit"]_vars

\* the scan had stored the values of two registers when the failing sent
\* event ended the run
C34_Witness ==
    /\ command = "list_phy"
    /\ pc = "exit"
    /\ exit_msg = "PHY packet failed"
    /\ last_event.type = EV_PHY_PACKET_SENT
    /\ last_event.rcode = RCODE_BUSY
    /\ regs_read = {2, 3}
    /\ reported = <<>>

(* -------------------------------- C35 --------------------------------- *)

\* the words stored in self_ids so far
ChainStored == 0..(Min({self_id_index, SelfIdsSize}) - 1)

\* a step of _send_packet that lengthens the chain
ChainGrows == self_id_index' # self_id_index

\* C35: every word in the Self-ID chain satisfies the response predicate
\* of the transaction and has the top bits 10, and for the ping command it
\* carries the phy id of the pinged node; the chain only grows, by one
\* word at a time, which is the received PHY packet just read, and a word
\* once stored is not changed.
C35_ChainWords ==
    /\ [](command \in PhyCommands =>
             \A i \in ChainStored :
                /\ And(self_ids[i], response_mask) = response_bits
                /\ Field(self_ids[i], 30, 2) = 2
                /\ command = "command_ping" =>
                      Field(self_ids[i], 24, 6) = param_node_id)
    /\ [][/\ self_id_index' >= self_id_index
          /\ \A i \in ChainStored : self_ids'[i] = self_ids[i]]_vars
    /\ [][ChainGrows =>
             /\ self_id_index' = self_id_index + 1
             /\ last_event'.type = EV_PHY_PACKET_RECEIVED
             /\ nread' = nread + 1
             /\ And(last_event'.data, response_mask) = response_bits
             /\ Field(last_event'.data, 30, 2) = 2
             /\ self_id_index < SelfIdsSize =>
                   self_ids'[self_id_index] = last_event'.data]_vars

\* ping has stored the two Self-ID packets of the pinged node and has left
\* out the Self-ID packet of another node
C35_Witness ==
    /\ command = "command_ping"
    /\ self_id_index = 2
    /\ self_ids[0] = SelfIdWord(param_node_id, 1)
    /\ self_ids[1] = SelfIdWord(param_node_id, 0)
    /\ \E i \in 1..Len(evlog) :
          /\ evlog[i].type = EV_PHY_PACKET_RECEIVED
          /\ evlog[i].data = SelfIdWord(param_node_id + 1, 1)

====
